---- MODULE Spec2Model ----
(***************************************************************************)
(* TukoPoa marketplace backend: the route handlers of products, payments,  *)
(* messages, categories and users over the PostgreSQL tables of            *)
(* config/database.js.  A handler is one action; the tables are the state. *)
(***************************************************************************)
EXTENDS Integers, Sequences, FiniteSets, TLC

VARIABLES
  users,           \* rows of table users:          [id, role, is_verified] and, where
                   \*   registration runs, [username, email, phone]
  categories,      \* rows of table categories:     [id, name]
  products,        \* rows of table products:       [id, user_id, category_id, price, is_active,
                   \*                                location, condition, title]
  product_images,  \* rows of table product_images: [id, product_id, is_primary]
  payments,        \* rows of table payments:       [id, user_id, product_id, amount, status, transaction_id]
  messages,        \* rows of table messages:       [id, sender_id, receiver_id, product_id, is_read]
  favorites,       \* rows of table favorites:      [user_id, product_id]
  seq,             \* next value of each table's SERIAL id sequence
  last,            \* the request handled by the latest step and its response
  tick,            \* flips with every request
  pool,            \* the connection pool: [checkedOut, events, lossy]
  inflight         \* requests between two of their statements

vars == <<users, categories, products, product_images, payments, messages,
          favorites, seq, last, tick, pool, inflight>>

(***************************************************************************)
(* Bounds of the model                                                     *)
(***************************************************************************)
MaxProducts == 2     \* product ids handed out by the sequence
MaxPayments == 2     \* payment ids handed out by the sequence
MaxPrice == 2        \* prices and amounts range over 1..MaxPrice
MaxFiles == 3        \* files uploaded with one request
MaxImages == 4       \* image ids handed out by the sequence
MaxMessages == 3     \* message ids handed out by the sequence
MaxLimit == 2        \* largest page size a list request asks for
MaxPage == 2         \* last page a list request asks for

NULL == 0            \* SQL NULL / a missing request field (ids start at 1)
NoTxn == "null"      \* SQL NULL in the text column payments.transaction_id

UserIds == {1, 2, 3}
MissingUser == 4     \* an id no row of users has
MissingProduct == MaxProducts + 1    \* an id no row of products has
ProductIds == 1..MaxProducts
Prices == 1..MaxPrice

(***************************************************************************)
(* The database as one value, as a handler sees it through pool / client   *)
(***************************************************************************)
DB == [users |-> users, categories |-> categories, products |-> products,
       product_images |-> product_images, payments |-> payments,
       messages |-> messages, favorites |-> favorites, seq |-> seq]

\* req.user as set by the authentication middleware: the users row of the
\* identifier carried by the bearer token
authenticateJWT(db, uid) == CHOOSE u \in db.users : u.id = uid

Callers(db) == {u.id : u \in db.users}

Res(db, status, out) == [db |-> db, status |-> status, out |-> out]

\* The statements reach the committed tables at once (no transaction)
rollback_Autocommit(db, tx) == tx

\* ROLLBACK: the committed tables stay as they were before BEGIN; a value
\* taken from a sequence is not given back.
rollback(db, tx) == [db EXCEPT !.seq = tx.seq]

(***************************************************************************)
(* Form fields are text.  A text is a sequence of characters; "x" stands   *)
(* for any character that is neither a sign nor a digit.                   *)
(***************************************************************************)
Digits == <<"0", "1", "2", "3", "4", "5", "6", "7", "8", "9">>
IsDigit(c) == \E i \in 1..Len(Digits) : Digits[i] = c
DigitVal(c) == (CHOOSE i \in 1..Len(Digits) : Digits[i] = c) - 1

NaN == 0 - 1000      \* the value NaN of parseFloat; below every number of the model

\* an absent field (undefined) and the empty text are both falsy
Truthy(s) == s # <<>>

Unsigned(s) == IF s # <<>> /\ s[1] = "-" THEN Tail(s) ELSE s

\* validator.isNumeric(s): an optional sign, then digits only, at least one
isNumeric(s) ==
  LET r == Unsigned(s) IN r # <<>> /\ \A i \in 1..Len(r) : IsDigit(r[i])

RECURSIVE digitRun(_, _)
digitRun(s, acc) ==
  IF s = <<>> \/ ~IsDigit(s[1]) THEN acc
  ELSE digitRun(Tail(s), acc * 10 + DigitVal(s[1]))

\* parseFloat(s): the number at the head of s, NaN when s starts with none
parseFloat(s) ==
  LET r == Unsigned(s) IN
  IF r = <<>> \/ ~IsDigit(r[1]) THEN NaN
  ELSE IF s[1] = "-" THEN 0 - digitRun(r, 0) ELSE digitRun(r, 0)

Text(n) == <<Digits[n + 1]>>

\* price fields sent by clients: a positive number, or one that is rejected
GoodPriceTexts == {Text(n) : n \in Prices}
BadPriceTexts == {<<>>, <<"x">>, <<"0">>, <<"-", "1">>, <<"1", "x">>}

(***************************************************************************)
(* products: POST /                                                        *)
(***************************************************************************)
UploadLimit == 10    \* upload.array('images', 10)

\* INSERT INTO products (...) RETURNING *   (is_active defaults to true; the
\* requests of the model all carry the same location, condition and title)
insertProduct(db, caller, category_id, price) ==
  [db EXCEPT
     !.products = @ \cup {[id |-> db.seq.products, user_id |-> caller,
                           category_id |-> category_id, price |-> price,
                           is_active |-> TRUE, location |-> "dar",
                           condition |-> "used", title |-> "phone"]},
     !.seq.products = @ + 1]

\* INSERT INTO product_images (product_id, image_url, is_primary)
insertImage(db, product_id, is_primary) ==
  [db EXCEPT
     !.product_images = @ \cup {[id |-> db.seq.product_images,
                                 product_id |-> product_id,
                                 is_primary |-> is_primary]},
     !.seq.product_images = @ + 1]

\* Every uploaded file flagged primary
isPrimary_All(i) == TRUE

\* i === 0
isPrimary(i) == i = 0

\* for (let i = from; i < to; i++) insert image i of req.files
RECURSIVE insertImages(_, _, _, _)
insertImages(db, product_id, i, to) ==
  IF i >= to THEN db
  ELSE insertImages(insertImage(db, product_id, isPrimary(i)), product_id, i + 1, to)

\* Statements of the transaction, in order:
\*   1 BEGIN  2 INSERT product  2+i INSERT image i (1..nfiles)  (then COMMIT)
\* The client's view of the database after the first k statements
createProductTx(db, caller, body, nfiles, k) ==
  IF k <= 1 THEN db
  ELSE insertImages(insertProduct(db, caller, body.category_id, parseFloat(body.price)),
                    db.seq.products, 0, IF k - 2 < nfiles THEN k - 2 ELSE nfiles)

\* products.category_id REFERENCES categories(id): the insert of a row naming no
\* category throws
categoryForeignKeyFails(db, category_id) ==
  category_id # NULL /\ ~\E c \in db.categories : c.id = category_id

\* body: [fields, price, category_id]; nfiles: req.files.length; failAt: the
\* statement of the transaction that throws (0: none)
createProduct(db, caller, body, nfiles, failAt) ==
  IF nfiles > UploadLimit THEN Res(db, 500, [threw |-> 0])
  ELSE IF ~body.fields \/ ~Truthy(body.price) \/ body.category_id = NULL
  THEN Res(db, 400, [threw |-> 0])
  ELSE IF ~isNumeric(body.price) \/ parseFloat(body.price) <= 0
  THEN Res(db, 400, [threw |-> 0])
  ELSE
  LET fk == categoryForeignKeyFails(db, body.category_id)
      threw == IF fk /\ (failAt = 0 \/ failAt > 2) THEN 2 ELSE failAt
  IN
  IF threw = 0
  THEN Res(createProductTx(db, caller, body, nfiles, 2 + nfiles), 201,
           [threw |-> 0, id |-> db.seq.products])
  ELSE
  LET tx == createProductTx(db, caller, body, nfiles, threw - 1)
      \* the failing insert has drawn its id from the sequence
      drawn == IF threw = 2 /\ fk THEN [tx EXCEPT !.seq.products = @ + 1] ELSE tx
  IN  Res(rollback(db, drawn), 500, [threw |-> threw, id |-> db.seq.products])

(***************************************************************************)
(* products: DELETE /:id                                                   *)
(***************************************************************************)
\* DELETE FROM products WHERE id = $1, with the ON DELETE CASCADE of the tables
\* that reference products
deleteProductRow(db, productId) ==
  [db EXCEPT
     !.products = {p \in @ : p.id # productId},
     !.product_images = {i \in @ : i.product_id # productId},
     !.favorites = {f \in @ : f.product_id # productId},
     !.payments = {p \in @ : p.product_id # productId},
     !.messages = {m \in @ : m.product_id # productId}]

\* The lookup without the condition on the owner
ownedProduct_AnyOwner(db, caller, productId) ==
  {p \in db.products : p.id = productId}

\* SELECT * FROM products WHERE id = $1 AND user_id = $2
ownedProduct(db, caller, productId) ==
  {p \in db.products : p.id = productId /\ p.user_id = caller}

deleteProduct(db, caller, productId) ==
  IF ownedProduct(db, caller, productId) = {} THEN Res(db, 404, NULL)
  ELSE Res(deleteProductRow(db, productId), 200, NULL)

(***************************************************************************)
(* products: POST /:id/favorite                                            *)
(***************************************************************************)
\* The favorite is inserted whether or not it exists
existingFavorite_None(db, caller, productId) == {}

\* SELECT * FROM favorites WHERE product_id = $1 AND user_id = $2
existingFavorite(db, caller, productId) ==
  {f \in db.favorites : f.product_id = productId /\ f.user_id = caller}

toggleFavorite(db, caller, productId) ==
  LET product == {p \in db.products : p.id = productId /\ p.is_active} IN
  IF product = {} THEN Res(db, 404, [is_favorite |-> "none"])
  ELSE IF existingFavorite(db, caller, productId) # {}
  THEN Res([db EXCEPT !.favorites =
              {f \in @ : ~(f.product_id = productId /\ f.user_id = caller)}],
           200, [is_favorite |-> "false"])
  ELSE Res([db EXCEPT !.favorites =
              @ \cup {[user_id |-> caller, product_id |-> productId]}],
           200, [is_favorite |-> "true"])

(***************************************************************************)
(* payments: POST /process                                                 *)
(***************************************************************************)
\* INSERT INTO payments (...) VALUES (..., 'pending') RETURNING *
insertPayment(db, caller, product_id, amount) ==
  [db EXCEPT
     !.payments = @ \cup {[id |-> db.seq.payments, user_id |-> caller,
                           product_id |-> product_id, amount |-> amount,
                           status |-> "pending", transaction_id |-> NoTxn]},
     !.seq.payments = @ + 1]

\* The update setting the transaction id alone
completePayment_NoStatus(db, id) ==
  [db EXCEPT !.payments =
     {IF p.id = id THEN [p EXCEPT !.transaction_id = "TXN"] ELSE p : p \in @}]

\* UPDATE payments SET status = 'completed', transaction_id = $2 WHERE id = $3
completePayment(db, id) ==
  [db EXCEPT !.payments =
     {IF p.id = id THEN [p EXCEPT !.status = "completed", !.transaction_id = "TXN"]
                   ELSE p : p \in @}]

\* UPDATE payments SET status = $1 WHERE id = $2
setPaymentStatus(db, status, id) ==
  [db EXCEPT !.payments =
     {IF p.id = id THEN [p EXCEPT !.status = status] ELSE p : p \in @}]

\* UPDATE products SET is_active = $flag WHERE id = $1
setProductActive(db, product_id, flag) ==
  [db EXCEPT !.products =
     {IF p.id = product_id THEN [p EXCEPT !.is_active = flag] ELSE p : p \in @}]

\* Statements of the transaction, in order:
\*   1 BEGIN  2 INSERT payment  3 UPDATE payment  4 UPDATE product  (then COMMIT)
\* A request names the one that throws, if any; COMMIT itself is not failed.
ProcessStatements == 4

\* The transaction with the deactivation hitting no row
processPaymentTx_NoDeactivate(db, caller, product_id, amount, k) ==
  LET id == db.seq.payments
      s2 == insertPayment(db, caller, product_id, amount)
      s3 == completePayment(s2, id)
  IN  CASE k <= 1 -> db
        [] k = 2  -> s2
        [] OTHER  -> s3

\* The client's view of the database after the first k statements
processPaymentTx(db, caller, product_id, amount, k) ==
  LET id == db.seq.payments
      s2 == insertPayment(db, caller, product_id, amount)
      s3 == completePayment(s2, id)
      s4 == setProductActive(s3, product_id, FALSE)
  IN  CASE k <= 1 -> db
        [] k = 2  -> s2
        [] k = 3  -> s3
        [] OTHER  -> s4

\* error.paymentId of an error thrown by a statement: a driver error carries no
\* such field, so the 'failed' update of the catch block never runs
errorPaymentId(db, k) == NULL

\* The self-purchase check left out
ownProduct_Never(productData, caller) == FALSE

\* productData.user_id === req.user.id
ownProduct(productData, caller) == productData.user_id = caller

\* parseFloat(amount) !== parseFloat(productData.price)
amountMismatch(amount, productData) == amount # productData.price

\* body: [product_id, amount, payment_method, phone_number];  failAt: the
\* statement of the transaction that throws (0: none)
processPayment(db, caller, body, failAt) ==
  IF body.product_id = NULL \/ body.amount = 0
     \/ ~body.payment_method \/ ~body.phone_number
  THEN Res(db, 400, [threw |-> 0])
  ELSE
  LET product == {p \in db.products : p.id = body.product_id /\ p.is_active} IN
  IF product = {} THEN Res(db, 404, [threw |-> 0])
  ELSE
  LET productData == CHOOSE p \in product : TRUE IN
  IF ownProduct(productData, caller) THEN Res(db, 400, [threw |-> 0])
  ELSE IF amountMismatch(body.amount, productData) THEN Res(db, 400, [threw |-> 0])
  ELSE IF failAt = 0
  THEN Res(processPaymentTx(db, caller, body.product_id, body.amount,
                            ProcessStatements),
           200, [threw |-> 0, id |-> db.seq.payments])
  ELSE
  LET tx == processPaymentTx(db, caller, body.product_id, body.amount, failAt - 1)
      rolled == rollback(db, tx)
      failed == IF errorPaymentId(db, failAt) # NULL
                THEN setPaymentStatus(rolled, "failed", errorPaymentId(db, failAt))
                ELSE rolled
  IN  Res(failed, 500, [threw |-> failAt, id |-> db.seq.payments])

(***************************************************************************)
(* payments: POST /:id/cancel                                              *)
(***************************************************************************)
\* The lookup without the buyer condition
pendingPayment_AnyBuyer(db, caller, paymentId) ==
  {p \in db.payments : p.id = paymentId /\ p.status = "pending"}

\* SELECT * FROM payments WHERE id = $1 AND user_id = $2 AND status = 'pending'
pendingPayment(db, caller, paymentId) ==
  {p \in db.payments : p.id = paymentId /\ p.user_id = caller
                       /\ p.status = "pending"}

cancelPayment(db, caller, paymentId) ==
  LET payment == pendingPayment(db, caller, paymentId) IN
  IF payment = {} THEN Res(db, 404, [product_id |-> NULL])
  ELSE
  LET row == CHOOSE p \in payment : TRUE
      cancelled == setPaymentStatus(db, "cancelled", paymentId)
  IN  Res(setProductActive(cancelled, row.product_id, TRUE), 200,
          [product_id |-> row.product_id])

(***************************************************************************)
(* Statement text.  A statement is a sequence of tokens; NL is a line      *)
(* break of the template literal, Ph(n) the placeholder $n.                *)
(***************************************************************************)
NL == "\n"
Placeholders == <<"$1", "$2", "$3", "$4", "$5", "$6", "$7", "$8", "$9", "$10">>
Ph(n) == Placeholders[n]
PlaceholderIndex == [t \in {Placeholders[n] : n \in 1..Len(Placeholders)} |->
                       CHOOSE n \in 1..Len(Placeholders) : Placeholders[n] = t]

\* the number of parameters a statement has: its highest placeholder index
maxPlaceholder(text) ==
  LET used == {PlaceholderIndex[text[i]] :
                 i \in {j \in 1..Len(text) : text[j] \in DOMAIN PlaceholderIndex}}
  IN  IF used = {} THEN 0 ELSE CHOOSE n \in used : \A m \in used : m <= n

\* pool.query(text, params): the server takes the statement only when the bind
\* message supplies as many values as the statement has parameters
bindOk(text, params) == Len(params) = maxPlaceholder(text)

(***************************************************************************)
(* String.prototype.replace(regex, replacement), regex without flags.  A   *)
(* pattern is a sequence of literal tokens and of ANY, the regex ".*": any *)
(* run of tokens that holds no line break, as long as possible.            *)
(***************************************************************************)
ANY == ".*"

\* "." matches every character but a line terminator
anyMatches(t) == t # NL

\* the length of the run of tokens from position j that ANY can take at most
anyRun(text, j) ==
  LET stops == {k \in j..Len(text) : ~anyMatches(text[k])} IN
  IF stops = {} THEN Len(text) + 1 - j
  ELSE (CHOOSE k \in stops : \A m \in stops : k <= m) - j

\* the position after a match of pat[i..] at text[j..]; 0 when there is none.
\* ANY first takes its longest run and gives tokens back one at a time.
RECURSIVE matchEnd(_, _, _, _), backtrack(_, _, _, _, _)
matchEnd(pat, i, text, j) ==
  IF i > Len(pat) THEN j
  ELSE IF pat[i] = ANY THEN backtrack(pat, i, text, j, anyRun(text, j))
  ELSE IF j <= Len(text) /\ text[j] = pat[i] THEN matchEnd(pat, i + 1, text, j + 1)
  ELSE 0

backtrack(pat, i, text, j, k) ==
  LET end == matchEnd(pat, i + 1, text, j + k) IN
  IF end # 0 THEN end
  ELSE IF k = 0 THEN 0
  ELSE backtrack(pat, i, text, j, k - 1)

\* the first match is replaced; without a match the text is returned as it is
replace(text, pat, replacement) ==
  LET starts == {j \in 1..Len(text) : matchEnd(pat, 1, text, j) # 0} IN
  IF starts = {} THEN text
  ELSE LET j == CHOOSE k \in starts : \A m \in starts : k <= m
           e == matchEnd(pat, 1, text, j)
       IN  SubSeq(text, 1, j - 1) \o replacement \o SubSeq(text, e, Len(text))

CountProjection == <<"SELECT", "COUNT(*)", "FROM">>

(***************************************************************************)
(* The filtered-list query builder, as each list handler writes it out     *)
(***************************************************************************)
\* query += ` AND <column> <op> $${paramIndex}`
clause(col, ph) ==
  CASE col = "category"   -> <<"AND", "p.category_id =", ph>>
    [] col = "location"   -> <<"AND", "p.location ILIKE", ph>>
    [] col = "min_price"  -> <<"AND", "p.price >=", ph>>
    [] col = "max_price"  -> <<"AND", "p.price <=", ph>>
    [] col = "condition"  -> <<"AND", "p.condition =", ph>>
    [] col = "search"     -> <<"AND", "(p.title ILIKE", ph, "OR p.description ILIKE", ph, ")">>
    [] col = "exclude_my_products" -> <<"AND", "p.user_id !=", ph>>
    [] col = "status"     -> <<"AND", "p.status =", ph>>
    [] col = "product_id" -> <<"AND", "m.product_id =", ph>>
    [] col = "is_active"  -> <<"AND", "p.is_active =", ph>>

\* st: [query, params, paramIndex].  params holds the name of each bound value.
\* if (<filter>) { query += clause; params.push(value); paramIndex++ }
RECURSIVE applyFilters(_, _, _)
applyFilters(filters, i, st) ==
  IF i > Len(filters) THEN st
  ELSE applyFilters(filters, i + 1,
         IF filters[i].on
         THEN [query |-> st.query \o clause(filters[i].col, Ph(st.paramIndex)),
               params |-> Append(st.params, filters[i].col),
               paramIndex |-> st.paramIndex + 1]
         ELSE st)

\* (parseInt(page) - 1) * parseInt(limit)
offset(page, limit) == (page - 1) * limit

\* The pagination step with the two placeholders numbered one too high
paginate_OffByOne(st, page, limit) ==
  [query |-> st.query \o <<"LIMIT", Ph(st.paramIndex + 1), "OFFSET", Ph(st.paramIndex + 2)>>,
   params |-> st.params \o <<"limit", "offset">>,
   paramIndex |-> st.paramIndex,
   values |-> <<limit, offset(page, limit)>>]

\* query += ` LIMIT $${paramIndex} OFFSET $${paramIndex + 1}`;
\* params.push(parseInt(limit), offset)
\* values: the two numbers pushed, bound under the names limit and offset
paginate(st, page, limit) ==
  [query |-> st.query \o <<"LIMIT", Ph(st.paramIndex), "OFFSET", Ph(st.paramIndex + 1)>>,
   params |-> st.params \o <<"limit", "offset">>,
   paramIndex |-> st.paramIndex,
   values |-> <<limit, offset(page, limit)>>]

\* params.slice(0, -2)
countParams(params) == SubSeq(params, 1, Len(params) - 2)

\* Math.ceil(total / limit)
ceilDiv(total, limit) == (total + limit - 1) \div limit

\* The two statements of a list handler run against the database: the count
\* statement first, then the row statement; either throws when its bind fails.
\* matching: the rows satisfying the WHERE predicate.
runList(db, built, countPattern, matching, page, limit) ==
  LET countQuery == replace(built.query, countPattern, CountProjection) IN
  IF ~bindOk(countQuery, countParams(built.params)) THEN Res(db, 500, [total |-> NULL])
  ELSE IF ~bindOk(built.query, built.params) THEN Res(db, 500, [total |-> NULL])
  ELSE Res(db, 200, [total |-> Cardinality(matching), page |-> page, limit |-> limit,
                     total_pages |-> ceilDiv(Cardinality(matching), limit)])

\* column ILIKE '%value%', on the texts of the model
ilike(text, value) == text = value

(***************************************************************************)
(* products: GET /                                                         *)
(***************************************************************************)
productsSelect ==
  <<NL, "SELECT", "p.", "*", ",", "u.username", ",", "u.location as seller_location", ",", NL,
    "(SELECT image_url", "FROM",
      "product_images WHERE product_id = p.id AND is_primary = true LIMIT 1) as primary_image",
      ",", NL,
    "(SELECT COUNT(*)", "FROM", "product_images WHERE product_id = p.id) as image_count", ",", NL,
    "(SELECT COUNT(*)", "FROM", "favorites WHERE product_id = p.id) as favorite_count", NL,
    "FROM", "products p", NL,
    "JOIN users u ON p.user_id = u.id", NL,
    "WHERE", "p.is_active = true", NL>>

\* /SELECT p\..*, u\.username, u\.location as seller_location,.*FROM/
productsCountPattern ==
  <<"SELECT", "p.", ANY, ",", "u.username", ",", "u.location as seller_location", ",",
    ANY, "FROM">>

validSortFields == {"created_at", "price", "views", "favorite_count"}

\* the lower-case letter of a character; other characters map to themselves
lowerCase(c) ==
  CASE c = "A" -> "a" [] c = "S" -> "s" [] c = "C" -> "c"
    [] c = "D" -> "d" [] c = "E" -> "e" [] OTHER -> c

\* order.toLowerCase() without any effect
toLowerCase_Identity(s) == s

\* order.toLowerCase(), on a text
toLowerCase(s) == [i \in 1..Len(s) |-> lowerCase(s[i])]

Asc == <<"a", "s", "c">>
Desc == <<"d", "e", "s", "c">>

\* q: [category, location, min_price, max_price, condition, search,
\*     exclude_my_products, sort_by, order, page, limit]; user: req.user or NULL
productsQuery(q, user) ==
  LET filters ==
        <<[on |-> q.category # NULL, col |-> "category"],
          [on |-> q.location # "", col |-> "location"],
          [on |-> q.min_price # NULL, col |-> "min_price"],
          [on |-> q.max_price # NULL, col |-> "max_price"],
          [on |-> q.condition # "", col |-> "condition"],
          [on |-> q.search # "", col |-> "search"],
          [on |-> user # NULL /\ q.exclude_my_products = "true",
           col |-> "exclude_my_products"]>>
      st == applyFilters(filters, 1,
                         [query |-> productsSelect, params |-> <<>>, paramIndex |-> 1])
      sortField == IF q.sort_by \in validSortFields THEN q.sort_by ELSE "created_at"
      sortOrder == IF toLowerCase(q.order) = Asc THEN "asc" ELSE "desc"
  IN  paginate([st EXCEPT !.query = @ \o <<"ORDER BY", "p.", sortField, sortOrder>>],
               q.page, q.limit)

productsWhere(db, q, user) ==
  {p \in db.products :
     /\ p.is_active
     /\ q.category # NULL => p.category_id = q.category
     /\ q.location # "" => ilike(p.location, q.location)
     /\ q.min_price # NULL => p.price >= q.min_price
     /\ q.max_price # NULL => p.price <= q.max_price
     /\ q.condition # "" => p.condition = q.condition
     /\ q.search # "" => ilike(p.title, q.search)
     /\ (user # NULL /\ q.exclude_my_products = "true") => p.user_id # user}

listProducts(db, user, q) ==
  runList(db, productsQuery(q, user), productsCountPattern,
          productsWhere(db, q, user), q.page, q.limit)

(***************************************************************************)
(* payments: GET /my-payments and GET /seller/sales                        *)
(***************************************************************************)
myPaymentsSelect ==
  <<NL, "SELECT", "p.", "*", ",", "pr.title as product_title", ",",
        "pr.price as product_price", ",", NL,
    "pr.image_url as product_image", ",", "s.username as seller_name", NL,
    "FROM", "payments p", NL,
    "JOIN products pr ON p.product_id = pr.id", NL,
    "JOIN users s ON pr.user_id = s.id", NL,
    "WHERE", "p.user_id =", Ph(1), NL>>

sellerSalesSelect ==
  <<NL, "SELECT", "p.", "*", ",", "pr.title as product_title", ",",
        "pr.price as product_price", ",", NL,
    "pr.image_url as product_image", ",", "b.username as buyer_name", ",", NL,
    "b.email as buyer_email", ",", "b.phone as buyer_phone", NL,
    "FROM", "payments p", NL,
    "JOIN products pr ON p.product_id = pr.id", NL,
    "JOIN users b ON p.user_id = b.id", NL,
    "WHERE", "pr.user_id =", Ph(1), NL>>

\* /SELECT p\..*, pr\.title as product_title,.*FROM/
paymentsCountPattern ==
  <<"SELECT", "p.", ANY, ",", "pr.title as product_title", ",", ANY, "FROM">>

\* q: [status, page, limit]
paymentsQuery(select, q) ==
  LET st == applyFilters(<<[on |-> q.status # "", col |-> "status"]>>, 1,
                         [query |-> select, params |-> <<"user">>, paramIndex |-> 2])
  IN  paginate([st EXCEPT !.query = @ \o <<"ORDER BY", "p.created_at DESC">>],
               q.page, q.limit)

myPaymentsWhere(db, caller, q) ==
  {p \in db.payments : p.user_id = caller /\ (q.status # "" => p.status = q.status)}

sellerSalesWhere(db, caller, q) ==
  {p \in db.payments :
     /\ \E pr \in db.products : pr.id = p.product_id /\ pr.user_id = caller
     /\ q.status # "" => p.status = q.status}

listMyPayments(db, caller, q) ==
  runList(db, paymentsQuery(myPaymentsSelect, q), paymentsCountPattern,
          myPaymentsWhere(db, caller, q), q.page, q.limit)

listSellerSales(db, caller, q) ==
  runList(db, paymentsQuery(sellerSalesSelect, q), paymentsCountPattern,
          sellerSalesWhere(db, caller, q), q.page, q.limit)

(***************************************************************************)
(* users: GET /:id/products and GET /:id/favorites                         *)
(***************************************************************************)
userProductsSelect ==
  <<NL, "SELECT", "p.", "*", ",", NL,
    "(SELECT image_url", "FROM",
      "product_images WHERE product_id = p.id AND is_primary = true LIMIT 1) as primary_image",
      ",", NL,
    "(SELECT COUNT(*)", "FROM", "product_images WHERE product_id = p.id) as image_count", NL,
    "FROM", "products p", NL,
    "WHERE", "p.user_id =", Ph(1), NL>>

userFavoritesSelect ==
  <<NL, "SELECT", "p.", "*", ",", NL,
    "(SELECT image_url", "FROM",
      "product_images WHERE product_id = p.id AND is_primary = true LIMIT 1) as primary_image",
      ",", NL,
    "(SELECT COUNT(*)", "FROM", "product_images WHERE product_id = p.id) as image_count", ",", NL,
    "u.username as seller_name", ",", NL,
    "u.location as seller_location", ",", NL,
    "f.created_at as favorited_at", NL,
    "FROM", "favorites f", NL,
    "JOIN products p ON f.product_id = p.id", NL,
    "JOIN users u ON p.user_id = u.id", NL,
    "WHERE", "f.user_id =", Ph(1), "AND p.is_active = true", NL,
    "ORDER BY", "f.created_at DESC", NL>>

\* /SELECT p\..*, \(SELECT image_url.*FROM/
userListCountPattern == <<"SELECT", "p.", ANY, ",", "(SELECT image_url", ANY, "FROM">>

\* q: [is_active, page, limit]; is_active is "" when the parameter is absent
userProductsQuery(q) ==
  LET st == applyFilters(<<[on |-> q.is_active # "", col |-> "is_active"]>>, 1,
                         [query |-> userProductsSelect, params |-> <<"user">>,
                          paramIndex |-> 2])
  IN  paginate([st EXCEPT !.query = @ \o <<"ORDER BY", "p.created_at DESC">>],
               q.page, q.limit)

userProductsWhere(db, userId, q) ==
  {p \in db.products :
     p.user_id = userId /\ (q.is_active # "" => p.is_active = (q.is_active = "true"))}

listUserProducts(db, userId, q) ==
  runList(db, userProductsQuery(q), userListCountPattern,
          userProductsWhere(db, userId, q), q.page, q.limit)

\* q: [page, limit]
userFavoritesQuery(q) ==
  paginate([query |-> userFavoritesSelect, params |-> <<"user">>, paramIndex |-> 2],
           q.page, q.limit)

userFavoritesWhere(db, userId) ==
  {f \in db.favorites :
     f.user_id = userId /\ \E p \in db.products : p.id = f.product_id /\ p.is_active}

\* q: [page, limit]
listUserFavorites(db, caller, userId, q) ==
  IF userId # caller /\ authenticateJWT(db, caller).role # "admin"
  THEN Res(db, 403, [total |-> NULL])
  ELSE runList(db, userFavoritesQuery(q), userListCountPattern,
               userFavoritesWhere(db, userId), q.page, q.limit)

(***************************************************************************)
(* messages: POST /, GET /conversation/:user_id, PUT /read/:user_id        *)
(***************************************************************************)
\* every user passes for the receiver
receiverRows_Any(db, receiver_id) == db.users

\* SELECT * FROM users WHERE id = $1
receiverRows(db, receiver_id) == {u \in db.users : u.id = receiver_id}

\* body: [receiver_id, product_id, content]; content is TRUE when a text came
sendMessage(db, caller, body) ==
  IF body.receiver_id = NULL \/ ~body.content THEN Res(db, 400, [id |-> NULL])
  ELSE IF receiverRows(db, body.receiver_id) = {} THEN Res(db, 404, [id |-> NULL])
  ELSE IF body.product_id # NULL /\ ~\E p \in db.products : p.id = body.product_id
  THEN Res(db, 404, [id |-> NULL])
  ELSE Res([db EXCEPT
              !.messages = @ \cup {[id |-> db.seq.messages, sender_id |-> caller,
                                    receiver_id |-> body.receiver_id,
                                    product_id |-> body.product_id, is_read |-> FALSE]},
              !.seq.messages = @ + 1],
           201, [id |-> db.seq.messages])

\* The update without the condition on the sender
markAsRead_AllSenders(db, receiver, sender) ==
  [db EXCEPT !.messages =
     {IF m.receiver_id = receiver THEN [m EXCEPT !.is_read = TRUE] ELSE m : m \in @}]

\* UPDATE messages SET is_read = true WHERE receiver_id = $1 AND sender_id = $2
markAsRead(db, receiver, sender) ==
  [db EXCEPT !.messages =
     {IF m.receiver_id = receiver /\ m.sender_id = sender
      THEN [m EXCEPT !.is_read = TRUE] ELSE m : m \in @}]

conversationSelect ==
  <<NL, "SELECT", "m.", "*", ",", NL,
    "sender.username as sender_name", ",", NL,
    "sender.avatar_url as sender_avatar", ",", NL,
    "receiver.username as receiver_name", ",", NL,
    "receiver.avatar_url as receiver_avatar", ",", NL,
    "p.title as product_title", ",", NL,
    "p.image_url as product_image", NL,
    "FROM", "messages m", NL,
    "JOIN users sender ON m.sender_id = sender.id", NL,
    "JOIN users receiver ON m.receiver_id = receiver.id", NL,
    "LEFT JOIN products p ON m.product_id = p.id", NL,
    "WHERE", "((m.sender_id =", Ph(1), "AND m.receiver_id =", Ph(2), ") OR", NL,
    "(m.sender_id =", Ph(2), "AND m.receiver_id =", Ph(1), "))", NL>>

\* /SELECT m\..*, sender\.username as sender_name,.*FROM/
conversationCountPattern ==
  <<"SELECT", "m.", ANY, ",", "sender.username as sender_name", ",", ANY, "FROM">>

\* q: [product_id, page, limit]
conversationQuery(q) ==
  LET st == applyFilters(<<[on |-> q.product_id # NULL, col |-> "product_id"]>>, 1,
                         [query |-> conversationSelect, params |-> <<"user", "other">>,
                          paramIndex |-> 3])
  IN  paginate([st EXCEPT !.query = @ \o <<"ORDER BY", "m.created_at DESC">>],
               q.page, q.limit)

conversationWhere(db, caller, otherUserId, q) ==
  {m \in db.messages :
     /\ \/ m.sender_id = caller /\ m.receiver_id = otherUserId
        \/ m.sender_id = otherUserId /\ m.receiver_id = caller
     /\ q.product_id # NULL => m.product_id = q.product_id}

\* the two list statements, then the update marking the conversation as read
getConversation(db, caller, otherUserId, q) ==
  IF ~\E u \in db.users : u.id = otherUserId THEN Res(db, 404, [total |-> NULL])
  ELSE LET listed == runList(db, conversationQuery(q), conversationCountPattern,
                             conversationWhere(db, caller, otherUserId, q),
                             q.page, q.limit)
       IN  IF listed.status # 200 THEN listed
           ELSE Res(markAsRead(db, caller, otherUserId), 200, listed.out)

markRead(db, caller, otherUserId) ==
  Res(markAsRead(db, caller, otherUserId), 200, NULL)

(***************************************************************************)
(* messages: GET /unread-count, DELETE /:id                                *)
(***************************************************************************)
\* SELECT COUNT(*) FROM messages WHERE receiver_id = $1 AND is_read = false
unreadCount(db, caller) ==
  Res(db, 200,
      [unread_count |-> Cardinality({m \in db.messages :
                                       m.receiver_id = caller /\ ~m.is_read})])

\* The lookup without the condition on the caller
ownMessage_Any(db, caller, messageId) == {m \in db.messages : m.id = messageId}

\* SELECT * FROM messages WHERE id = $1 AND (sender_id = $2 OR receiver_id = $2)
ownMessage(db, caller, messageId) ==
  {m \in db.messages :
     m.id = messageId /\ (m.sender_id = caller \/ m.receiver_id = caller)}

\* DELETE FROM messages WHERE id = $1
deleteMessage(db, caller, messageId) ==
  IF ownMessage(db, caller, messageId) = {} THEN Res(db, 404, NULL)
  ELSE Res([db EXCEPT !.messages = {m \in @ : m.id # messageId}], 200, NULL)

(***************************************************************************)
(* categories: DELETE /:id                                                 *)
(***************************************************************************)
\* the role middleware lets the request through when the caller's role is listed
authorizeRole(user, roles) == user.role \in roles

\* SELECT COUNT(*) FROM products WHERE category_id = $1, counting listed products only
productCount_ActiveOnly(db, categoryId) ==
  Cardinality({p \in db.products : p.category_id = categoryId /\ p.is_active})

\* SELECT COUNT(*) FROM products WHERE category_id = $1
productCount(db, categoryId) ==
  Cardinality({p \in db.products : p.category_id = categoryId})

\* DELETE FROM categories WHERE id = $1, with the ON DELETE SET NULL of
\* products.category_id
deleteCategoryRow(db, categoryId) ==
  [db EXCEPT
     !.categories = {c \in @ : c.id # categoryId},
     !.products = {IF p.category_id = categoryId THEN [p EXCEPT !.category_id = NULL]
                   ELSE p : p \in @}]

deleteCategory(db, caller, categoryId) ==
  IF ~authorizeRole(authenticateJWT(db, caller), {"admin"}) THEN Res(db, 403, NULL)
  ELSE IF ~\E c \in db.categories : c.id = categoryId THEN Res(db, 404, NULL)
  ELSE IF productCount(db, categoryId) > 0 THEN Res(db, 400, NULL)
  ELSE Res(deleteCategoryRow(db, categoryId), 200, NULL)

(***************************************************************************)
(* users: PUT /:id and DELETE /:id                                         *)
(***************************************************************************)
\* the handler lets everybody through
accessDenied_Never(user) == FALSE

\* if (req.user.role !== 'admin') return res.status(403)
accessDenied(user) == user.role # "admin"

\* body: [is_verified, role]
\* UPDATE users SET is_verified = $1, role = $2 WHERE id = $3 RETURNING ...
updateUser(db, caller, userId, body) ==
  IF accessDenied(authenticateJWT(db, caller)) THEN Res(db, 403, NULL)
  ELSE IF ~\E u \in db.users : u.id = userId THEN Res(db, 404, NULL)
  ELSE Res([db EXCEPT !.users =
              {IF u.id = userId
               THEN [u EXCEPT !.is_verified = body.is_verified, !.role = body.role]
               ELSE u : u \in @}],
           200, NULL)

\* the rows of products that go with their owner
RECURSIVE deleteProductRows(_, _)
deleteProductRows(db, ids) ==
  IF ids = {} THEN db
  ELSE LET id == CHOOSE i \in ids : TRUE
       IN  deleteProductRows(deleteProductRow(db, id), ids \ {id})

\* DELETE FROM users WHERE id = $1, with the ON DELETE CASCADE of the tables that
\* reference users
deleteUserRow(db, userId) ==
  LET own == {p.id : p \in {q \in db.products : q.user_id = userId}}
      swept == deleteProductRows(db, own)
  IN  [swept EXCEPT
         !.users = {u \in @ : u.id # userId},
         !.payments = {p \in @ : p.user_id # userId},
         !.messages = {m \in @ : m.sender_id # userId /\ m.receiver_id # userId},
         !.favorites = {f \in @ : f.user_id # userId}]

\* parseInt(s): the decimal integer at the head of s, NaN when s starts with
\* none (the texts of the model carry no hexadecimal prefix)
parseInt(s) == parseFloat(s)

\* The integer input of the database server, which reads the text bound to
\* id = $1.  "decimal": an optional sign and decimal digits (PostgreSQL 12 to
\* 15); "nondecimal": also 0b and binary digits (PostgreSQL 16 and later).  The
\* README asks for PostgreSQL "v12 or higher".
IntegerGrammars == {"decimal", "nondecimal"}

RECURSIVE bitRun(_, _)
bitRun(s, acc) ==
  IF s = <<>> THEN acc ELSE bitRun(Tail(s), acc * 2 + DigitVal(s[1]))

isBinary(s) ==
  /\ Len(s) >= 3
  /\ s[1] = "0" /\ s[2] = "b"
  /\ \A i \in 3..Len(s) : s[i] \in {"0", "1"}

\* the integer the server reads; NaN when it raises invalid input syntax
integerInput(s, grammar) ==
  IF isNumeric(s) THEN parseFloat(s)
  ELSE IF grammar = "nondecimal" /\ isBinary(s) THEN bitRun(SubSeq(s, 3, Len(s)), 0)
  ELSE NaN

\* userId: the text of :id
deleteUser(db, caller, userId, grammar) ==
  IF accessDenied(authenticateJWT(db, caller)) THEN Res(db, 403, NULL)
  ELSE IF parseInt(userId) = caller THEN Res(db, 400, NULL)
  ELSE LET id == integerInput(userId, grammar) IN
       IF id = NaN THEN Res(db, 500, NULL)
       ELSE IF ~\E u \in db.users : u.id = id THEN Res(db, 404, NULL)
       ELSE Res(deleteUserRow(db, id), 200, NULL)

(***************************************************************************)
(* The client of a transactional handler:                                  *)
(*   const client = await pool.connect();                                  *)
(*   try { BEGIN ... COMMIT; res.json(...) }                               *)
(*   catch (error) { await client.query('ROLLBACK'); throw error }         *)
(*   finally { client.release() }                                          *)
(* and the outer catch that answers 500.                                   *)
(***************************************************************************)
\* no connection checked out, no request served yet
IdlePool == [checkedOut |-> 0, events |-> <<>>, lossy |-> FALSE]

\* the handler without its finally block: the client is released after COMMIT
clientEvents_NoFinally(connected, threw, rollbackFails) ==
  IF ~connected THEN <<"respond">>
  ELSE IF threw = 0 THEN <<"connect", "COMMIT", "release", "respond">>
  ELSE IF rollbackFails THEN <<"connect", "ROLLBACK throws", "respond">>
  ELSE <<"connect", "ROLLBACK", "respond">>

\* What a request does with its client, in order.  connected: the request got
\* past validation; threw: the statement of the transaction that threw (0: none)
clientEvents(connected, threw, rollbackFails) ==
  IF ~connected THEN <<"respond">>
  ELSE IF threw = 0 THEN <<"connect", "COMMIT", "respond", "release">>
  ELSE IF rollbackFails THEN <<"connect", "ROLLBACK throws", "release", "respond">>
  ELSE <<"connect", "ROLLBACK", "release", "respond">>

occurrences(events, e) == Cardinality({i \in 1..Len(events) : events[i] = e})

(***************************************************************************)
(* products: PUT /:id                                                      *)
(***************************************************************************)
\* parseFloat(price), bound as $3 with no check: DECIMAL(10,2) stores NaN too
updatePrice(old, price) == parseFloat(price)

\* an inactive listing staying inactive whatever the field says
updateActive_KeepInactive(old, is_active) == old /\ is_active = "true"

\* is_active === 'true', bound as $15; "" stands for a field that was not sent
updateActive(old, is_active) == is_active = "true"

\* UPDATE products SET ..., price = $3, ..., category_id = $5, ..., is_active = $15
\* WHERE id = $16 AND user_id = $17
updateProductRow(db, caller, productId, body) ==
  [db EXCEPT !.products =
     {IF p.id = productId /\ p.user_id = caller
      THEN [p EXCEPT !.price = updatePrice(p.price, body.price),
                     !.category_id = body.category_id,
                     !.is_active = updateActive(p.is_active, body.is_active)]
      ELSE p : p \in @}]

\* DELETE FROM product_images WHERE product_id = $1
deleteImages(db, productId) ==
  [db EXCEPT !.product_images = {i \in @ : i.product_id # productId}]

\* req.files.length > 0 && req.body.delete_old_images === 'true'
deletesOldImages(body, nfiles) == nfiles > 0 /\ body.delete_old_images = "true"

\* Statements of the handler after the ownership lookup, in order:
\*   1 UPDATE product  [2 DELETE images]  then one INSERT per uploaded file
\* Each is sent with pool.query, outside any transaction.
updateProductStatements(body, nfiles) ==
  1 + (IF deletesOldImages(body, nfiles) THEN 1 ELSE 0) + nfiles

\* The database after the first k statements
updateProductRun(db, caller, productId, body, nfiles, k) ==
  LET s1 == updateProductRow(db, caller, productId, body)
      d == IF deletesOldImages(body, nfiles) THEN 1 ELSE 0
      inserted == IF k - 1 - d < 0 THEN 0 ELSE k - 1 - d
  IN  IF k <= 0 THEN db
      ELSE IF k = 1 THEN s1
      ELSE insertImages(IF d = 1 THEN deleteImages(s1, productId) ELSE s1,
                        productId, 0, inserted)

\* body: [fields, price, category_id, is_active, delete_old_images]; fields: title,
\* description, condition and location are sent (they are NOT NULL columns);
\* failAt: the statement that throws (0: none).  out.mutations: the mutating
\* statements that took effect
updateProduct(db, caller, productId, body, nfiles, failAt) ==
  IF nfiles > UploadLimit THEN Res(db, 500, [mutations |-> 0])
  ELSE IF ownedProduct(db, caller, productId) = {} THEN Res(db, 404, [mutations |-> 0])
  ELSE
  LET threw == IF ~body.fields \/ categoryForeignKeyFails(db, body.category_id)
               THEN 1 ELSE failAt
      all == updateProductStatements(body, nfiles)
  IN  IF threw = 0
      THEN Res(updateProductRun(db, caller, productId, body, nfiles, all), 200,
               [mutations |-> all])
      ELSE Res(updateProductRun(db, caller, productId, body, nfiles, threw - 1), 500,
               [mutations |-> threw - 1])

(***************************************************************************)
(* payments: POST /:id/cancel, statement by statement                      *)
(***************************************************************************)
\* Statements of the handler after the lookup, in order:
\*   1 UPDATE payments  2 UPDATE products
\* Each is sent with pool.query, outside any transaction.
CancelStatements == 2

\* The database after the first k statements
cancelPaymentRun(db, row, k) ==
  LET s1 == setPaymentStatus(db, "cancelled", row.id) IN
  CASE k <= 0 -> db
    [] k = 1  -> s1
    [] OTHER  -> setProductActive(s1, row.product_id, TRUE)

\* failAt: the statement that throws (0: none).  out.mutations: the mutating
\* statements that took effect
cancelPaymentAt(db, caller, paymentId, failAt) ==
  LET payment == pendingPayment(db, caller, paymentId) IN
  IF payment = {} THEN Res(db, 404, [product_id |-> NULL, mutations |-> 0])
  ELSE
  LET row == CHOOSE p \in payment : TRUE IN
  IF failAt = 0
  THEN Res(cancelPayment(db, caller, paymentId).db, 200,
           [product_id |-> row.product_id, mutations |-> CancelStatements])
  ELSE Res(cancelPaymentRun(db, row, failAt - 1), 500,
           [product_id |-> row.product_id, mutations |-> failAt - 1])

(***************************************************************************)
(* auth: POST /register.  The handler awaits the lookup, then the hashing  *)
(* of the password, then the insert: other requests run in between.        *)
(***************************************************************************)
\* validator.isEmail(s), as far as the addresses of the model go: one "@" with
\* text on both sides
isEmail(s) ==
  /\ Cardinality({i \in 1..Len(s) : s[i] = "@"}) = 1
  /\ s[1] # "@"
  /\ s[Len(s)] # "@"

\* validator.isMobilePhone(s, ['en-TZ']): /^(\+?255|0)?[67]\d{8}$/
isMobilePhone(s) ==
  \E k \in {0, 1, 3, 4} :
    /\ Len(s) = k + 9
    /\ CASE k = 0 -> TRUE
         [] k = 1 -> s[1] = "0"
         [] k = 3 -> SubSeq(s, 1, 3) = <<"2", "5", "5">>
         [] k = 4 -> SubSeq(s, 1, 4) = <<"+", "2", "5", "5">>
    /\ s[k + 1] \in {"6", "7"}
    /\ \A i \in (k + 2)..(k + 9) : IsDigit(s[i])

\* SELECT * FROM users WHERE username = $1 OR email = $2 OR phone = $3
existingUser(db, body) ==
  {u \in db.users : \/ u.username = body.username
                    \/ u.email = body.email
                    \/ u.phone = body.phone}

\* The table without its UNIQUE constraints
uniqueViolation_None(db, body) == FALSE

\* username, email and phone are each UNIQUE: the insert of a row repeating one
\* of them throws
uniqueViolation(db, body) == existingUser(db, body) # {}

\* INSERT INTO users (username, email, phone, ...) RETURNING id, ...
\* (role defaults to 'user', is_verified to false)
insertUser(db, body) ==
  [db EXCEPT
     !.users = @ \cup {[id |-> db.seq.users, username |-> body.username,
                        email |-> body.email, phone |-> body.phone,
                        role |-> "user", is_verified |-> FALSE]},
     !.seq.users = @ + 1]

\* The handler up to its first await after the lookup.  out.awaits: the request
\* goes on to hash the password and insert
registerLookup(db, body) ==
  IF ~Truthy(body.username) \/ ~Truthy(body.email) \/ ~Truthy(body.phone)
     \/ ~Truthy(body.password)
  THEN Res(db, 400, [awaits |-> FALSE])
  ELSE IF ~isEmail(body.email) THEN Res(db, 400, [awaits |-> FALSE])
  ELSE IF ~isMobilePhone(body.phone) THEN Res(db, 400, [awaits |-> FALSE])
  ELSE IF Len(body.password) < 6 THEN Res(db, 400, [awaits |-> FALSE])
  ELSE IF existingUser(db, body) # {} THEN Res(db, 400, [awaits |-> FALSE])
  ELSE Res(db, 0, [awaits |-> TRUE])

\* The rest of the handler: the insert and the response.  A failed insert has
\* drawn its id from the sequence
registerInsert(db, body) ==
  IF uniqueViolation(db, body)
  THEN Res([db EXCEPT !.seq.users = @ + 1], 500, [id |-> NULL])
  ELSE Res(insertUser(db, body), 201, [id |-> db.seq.users])

(***************************************************************************)
(* payments: POST /process, with other requests running between the       *)
(* product lookup and the transaction                                      *)
(***************************************************************************)
\* The handler up to pool.connect(): the validation, the lookup of the active
\* product and the checks on it.  out.awaits: the request goes on to its
\* transaction
processPaymentLookup(db, caller, body) ==
  LET r == processPayment(db, caller, body, 0) IN
  IF r.status = 200 THEN Res(db, 0, [threw |-> 0, awaits |-> TRUE])
  ELSE Res(db, r.status, [threw |-> 0, awaits |-> FALSE])

\* The transaction from BEGIN to COMMIT and the response.  Its statements name
\* the payment by the id the insert returned and the product by product_id
\* alone; under READ COMMITTED its rows reach the other connections at COMMIT
processPaymentCommit(db, caller, body) ==
  Res(processPaymentTx(db, caller, body.product_id, body.amount, ProcessStatements),
      200, [threw |-> 0, id |-> db.seq.payments])

(***************************************************************************)
(* products: POST /:id/favorite, with other requests running between the   *)
(* lookups and the write.  The rows carry their id here.                   *)
(***************************************************************************)
\* The table without its UNIQUE(user_id, product_id)
favoriteUniqueViolation_None(db, caller, productId) == FALSE

\* UNIQUE(user_id, product_id): the insert of a second row for the pair throws
favoriteUniqueViolation(db, caller, productId) ==
  \E f \in db.favorites : f.user_id = caller /\ f.product_id = productId

\* The handler up to its write: the lookup of the active product and of the
\* favorite.  out.found: the favorite existed
toggleFavoriteLookup(db, caller, productId) ==
  LET product == {p \in db.products : p.id = productId /\ p.is_active} IN
  IF product = {} THEN Res(db, 404, [awaits |-> FALSE, is_favorite |-> "none"])
  ELSE Res(db, 0, [awaits |-> TRUE,
                   found |-> existingFavorite(db, caller, productId) # {}])

\* The write and the response: DELETE FROM favorites WHERE product_id = $1 AND
\* user_id = $2 when the lookup had found the favorite, else INSERT INTO
\* favorites (product_id, user_id); a failed insert has drawn its id
toggleFavoriteWrite(db, caller, productId, found) ==
  IF found
  THEN Res([db EXCEPT !.favorites =
              {f \in @ : ~(f.product_id = productId /\ f.user_id = caller)}],
           200, [is_favorite |-> "false"])
  ELSE IF favoriteUniqueViolation(db, caller, productId)
  THEN Res([db EXCEPT !.seq.favorites = @ + 1], 500, [is_favorite |-> "none"])
  ELSE Res([db EXCEPT
              !.favorites = @ \cup {[id |-> db.seq.favorites, user_id |-> caller,
                                     product_id |-> productId]},
              !.seq.favorites = @ + 1],
           200, [is_favorite |-> "true"])

(***************************************************************************)
(* categories: DELETE /:id, with other requests running between the count  *)
(* of the products and the delete                                          *)
(***************************************************************************)
\* The handler up to its delete: the role check, the lookup of the category and
\* the count of its products.  out.awaits: the request goes on to delete
deleteCategoryLookup(db, caller, categoryId) ==
  LET r == deleteCategory(db, caller, categoryId) IN
  IF r.status = 200 THEN Res(db, 0, [awaits |-> TRUE])
  ELSE Res(db, r.status, [awaits |-> FALSE])

\* DELETE FROM categories WHERE id = $1 and the response
deleteCategoryWrite(db, categoryId) == Res(deleteCategoryRow(db, categoryId), 200, NULL)

(***************************************************************************)
(* Actions                                                                 *)
(***************************************************************************)
Store(db) ==
  /\ users' = db.users
  /\ categories' = db.categories
  /\ products' = db.products
  /\ product_images' = db.product_images
  /\ payments' = db.payments
  /\ messages' = db.messages
  /\ favorites' = db.favorites
  /\ seq' = db.seq

Reply(op, caller, arg, r) ==
  /\ Store(r.db)
  /\ last' = [op |-> op, caller |-> caller, arg |-> arg,
              status |-> r.status, out |-> r.out]
  /\ tick' = ~tick

\* a handler that runs its statements on the pool, one after the other
Respond(op, caller, arg, r) ==
  /\ Reply(op, caller, arg, r)
  /\ pool' = [pool EXCEPT !.events = <<>>]
  /\ UNCHANGED inflight

\* a handler that runs a transaction on a client of its own; the ROLLBACK of the
\* catch block can fail where connections get lost
RespondWithClient(op, caller, arg, r) ==
  \E rollbackFails \in {FALSE, pool.lossy} :
    LET events == clientEvents(r.status \in {200, 201} \/ r.out.threw # 0,
                               r.out.threw, rollbackFails)
    IN  /\ Reply(op, caller, arg, r)
        /\ pool' = [pool EXCEPT !.events = events,
                                !.checkedOut = @ + occurrences(events, "connect")
                                                 - occurrences(events, "release")]
        /\ UNCHANGED inflight

\* Requests of POST /payments/process: with payment method and phone number,
\* every product, amount and failing statement; and one without the two
PaymentRequests ==
  [product_id : {NULL} \cup ProductIds, amount : 0..MaxPrice, fields : {TRUE},
   failAt : 0..ProcessStatements]
  \cup {[product_id |-> 1, amount |-> 1, fields |-> FALSE, failAt |-> 0]}

ProcessPayment ==
  \E caller \in Callers(DB), req \in PaymentRequests :
    /\ seq.payments <= MaxPayments
    /\ LET body == [product_id |-> req.product_id, amount |-> req.amount,
                    payment_method |-> req.fields, phone_number |-> req.fields]
       IN  RespondWithClient("processPayment", caller, body,
                             processPayment(DB, caller, body, req.failAt))

CancelPayment ==
  \E caller \in Callers(DB), paymentId \in 1..MaxPayments :
    Respond("cancelPayment", caller, [id |-> paymentId],
            cancelPayment(DB, caller, paymentId))

\* Requests of POST /products: the well-formed ones with every number of files
\* and every failing statement, and the ones with one field missing or wrong
CreateRequests ==
  {[fields |-> TRUE, price |-> p, category_id |-> 1, nfiles |-> n, failAt |-> f] :
     p \in {Text(1), Text(MaxPrice)}, n \in 0..MaxFiles, f \in 0..(2 + MaxFiles)}
  \cup {[fields |-> FALSE, price |-> Text(1), category_id |-> 1, nfiles |-> 1, failAt |-> 0]}
  \cup {[fields |-> TRUE, price |-> p, category_id |-> 1, nfiles |-> 1, failAt |-> 0] :
          p \in BadPriceTexts}
  \cup {[fields |-> TRUE, price |-> Text(1), category_id |-> c, nfiles |-> n, failAt |-> 0] :
          c \in {NULL, 9}, n \in 0..MaxFiles}

CreateProduct ==
  \E caller \in Callers(DB), req \in CreateRequests :
    /\ seq.products <= MaxProducts
    /\ seq.product_images + req.nfiles <= MaxImages + 1
    /\ req.failAt <= 2 + req.nfiles
    /\ LET body == [fields |-> req.fields, price |-> req.price,
                    category_id |-> req.category_id]
       IN  RespondWithClient("createProduct", caller, [nfiles |-> req.nfiles],
                             createProduct(DB, caller, body, req.nfiles, req.failAt))

\* arg.before: the caller's favorite on the product existed before the request;
\* arg.again: the request repeats the request handled just before it
ToggleFavorite ==
  \E caller \in Callers(DB), productId \in ProductIds :
    Respond("toggleFavorite", caller,
            [id |-> productId,
             before |-> [user_id |-> caller, product_id |-> productId] \in favorites,
             again |-> /\ last.op = "toggleFavorite"
                       /\ last.caller = caller
                       /\ last.arg.id = productId],
            toggleFavorite(DB, caller, productId))

DeleteProduct ==
  \E caller \in Callers(DB), productId \in ProductIds :
    Respond("deleteProduct", caller, [id |-> productId],
            deleteProduct(DB, caller, productId))

\* Requests of PUT /products/:id: the well-formed ones without files, the ones
\* with files and every failing statement, and the ones with one field missing
\* or wrong
UpdateRequests ==
  {[fields |-> TRUE, price |-> p, category_id |-> 1, is_active |-> a,
    delete_old_images |-> "", nfiles |-> 0, failAt |-> 0] :
     p \in GoodPriceTexts, a \in {"true", ""}}
  \cup {[fields |-> TRUE, price |-> Text(1), category_id |-> 1, is_active |-> "true",
         delete_old_images |-> d, nfiles |-> n, failAt |-> f] :
          d \in {"true", ""}, n \in 0..MaxFiles, f \in 0..(2 + MaxFiles)}
  \cup {[fields |-> TRUE, price |-> p, category_id |-> 1, is_active |-> "true",
         delete_old_images |-> "", nfiles |-> 0, failAt |-> 0] : p \in BadPriceTexts}
  \cup {[fields |-> FALSE, price |-> Text(1), category_id |-> 1, is_active |-> "true",
         delete_old_images |-> "", nfiles |-> 0, failAt |-> 0],
        [fields |-> TRUE, price |-> Text(1), category_id |-> 9, is_active |-> "true",
         delete_old_images |-> "", nfiles |-> 0, failAt |-> 0],
        [fields |-> TRUE, price |-> Text(1), category_id |-> 1, is_active |-> "true",
         delete_old_images |-> "", nfiles |-> UploadLimit + 1, failAt |-> 0],
        [fields |-> TRUE, price |-> Text(1), category_id |-> 1, is_active |-> "false",
         delete_old_images |-> "", nfiles |-> 0, failAt |-> 0],
        [fields |-> TRUE, price |-> Text(1), category_id |-> 1, is_active |-> "TRUE",
         delete_old_images |-> "", nfiles |-> 0, failAt |-> 0]}

UpdateProduct ==
  \E caller \in Callers(DB), productId \in ProductIds, req \in UpdateRequests :
    /\ req.nfiles > UploadLimit \/ seq.product_images + req.nfiles <= MaxImages + 1
    /\ req.failAt <= updateProductStatements(req, req.nfiles)
    /\ LET body == [fields |-> req.fields, price |-> req.price,
                    category_id |-> req.category_id, is_active |-> req.is_active,
                    delete_old_images |-> req.delete_old_images]
       IN  Respond("updateProduct", caller,
                   [id |-> productId, nfiles |-> req.nfiles,
                    is_active |-> req.is_active],
                   updateProduct(DB, caller, productId, body, req.nfiles, req.failAt))

CancelPaymentAt ==
  \E caller \in Callers(DB), paymentId \in 1..MaxPayments, failAt \in 0..CancelStatements :
    Respond("cancelPayment", caller, [id |-> paymentId, failAt |-> failAt],
            cancelPaymentAt(DB, caller, paymentId, failAt))

\* the page sizes and pages a list request of the model asks for
Limits == {1, MaxLimit}
Pages == 1..MaxPage

NoFilter ==
  [category |-> NULL, location |-> "", min_price |-> NULL, max_price |-> NULL,
   condition |-> "", search |-> "", exclude_my_products |-> "",
   sort_by |-> "created_at", order |-> Desc, page |-> 1, limit |-> MaxLimit]

\* GET /products requests: anonymous ones with every combination of the six
\* plain filters, every sort and every page; the exclusion of the caller's own
\* listings asked by everyone, alone and on top of all other filters
ProductRequests ==
  {[user |-> NULL,
    q |-> [NoFilter EXCEPT !.category = c, !.location = l, !.min_price = lo,
                           !.max_price = hi, !.condition = k, !.search = s]] :
     c \in {NULL, 1}, l \in {"", "dar"}, lo \in {NULL, 1}, hi \in {NULL, MaxPrice},
     k \in {"", "used"}, s \in {"", "phone"}}
  \cup {[user |-> u, q |-> [NoFilter EXCEPT !.exclude_my_products = "true"]] :
          u \in {NULL} \cup UserIds}
  \cup {[user |-> u,
          q |-> [NoFilter EXCEPT !.category = 1, !.location = "dar", !.min_price = 1,
                                 !.max_price = MaxPrice, !.condition = "used",
                                 !.search = "phone", !.exclude_my_products = "true"]] :
          u \in {NULL} \cup UserIds}
  \cup {[user |-> NULL, q |-> [NoFilter EXCEPT !.sort_by = f, !.order = o]] :
          f \in validSortFields \cup {"title"}, o \in {Asc, <<"A", "S", "C">>, <<"A", "s", "c">>, Desc, <<"D", "E", "S", "C">>, <<"x">>}}
  \cup {[user |-> NULL, q |-> [NoFilter EXCEPT !.page = pg, !.limit = lim, !.category = c]] :
          pg \in Pages, lim \in Limits, c \in {NULL, 2}}

ListProducts ==
  \E req \in ProductRequests :
    /\ req.user # NULL => req.user \in Callers(DB)
    /\ Respond("listProducts", req.user, req.q, listProducts(DB, req.user, req.q))

PaymentQueries ==
  {[status |-> s, page |-> pg, limit |-> lim] :
     s \in {"", "completed", "cancelled"}, pg \in Pages, lim \in Limits}

ListMyPayments ==
  \E caller \in Callers(DB), q \in PaymentQueries :
    Respond("listMyPayments", caller, q, listMyPayments(DB, caller, q))

ListSellerSales ==
  \E caller \in Callers(DB), q \in PaymentQueries :
    Respond("listSellerSales", caller, q, listSellerSales(DB, caller, q))

ListUserProducts ==
  \E userId \in UserIds, a \in {"", "true", "false"}, pg \in Pages, lim \in Limits :
    LET q == [is_active |-> a, page |-> pg, limit |-> lim] IN
    Respond("listUserProducts", NULL,
            [id |-> userId, is_active |-> a, page |-> pg, limit |-> lim],
            listUserProducts(DB, userId, q))

ListUserFavorites ==
  \E caller \in Callers(DB), userId \in UserIds, pg \in Pages, lim \in Limits :
    LET q == [page |-> pg, limit |-> lim] IN
    Respond("listUserFavorites", caller, [id |-> userId, page |-> pg, limit |-> lim],
            listUserFavorites(DB, caller, userId, q))

\* POST /messages requests: users 2 and 3 write to everyone, user 2 asks
\* user 3 about listing 1; and the four requests the handler turns down
SendRequests ==
  {[caller |-> c, body |-> [receiver_id |-> r, product_id |-> NULL, content |-> TRUE]] :
     c \in {2, 3}, r \in UserIds}
  \cup {[caller |-> 2, body |-> b] :
          b \in {[receiver_id |-> 3, product_id |-> 1, content |-> TRUE],
                 [receiver_id |-> NULL, product_id |-> NULL, content |-> TRUE],
                 [receiver_id |-> 3, product_id |-> NULL, content |-> FALSE],
                 [receiver_id |-> MissingUser, product_id |-> NULL, content |-> TRUE],
                 [receiver_id |-> 3, product_id |-> MissingProduct, content |-> TRUE]}}

SendMessage ==
  \E req \in SendRequests :
    /\ req.caller \in Callers(DB)
    /\ seq.messages <= MaxMessages
    /\ Respond("sendMessage", req.caller, req.body, sendMessage(DB, req.caller, req.body))

\* GET /messages/conversation/:user_id requests: everyone with everyone, and
\* user 3 about listing 2 alone
ConversationRequests ==
  {[caller |-> c, user_id |-> o, product_id |-> NULL] :
     c \in UserIds, o \in UserIds \cup {MissingUser}}
  \cup {[caller |-> 3, user_id |-> 2, product_id |-> 2]}

GetConversation ==
  \E req \in ConversationRequests :
    /\ req.caller \in Callers(DB)
    /\ LET q == [product_id |-> req.product_id, page |-> 1, limit |-> MaxLimit] IN
       Respond("getConversation", req.caller,
               [user_id |-> req.user_id, product_id |-> req.product_id],
               getConversation(DB, req.caller, req.user_id, q))

MarkRead ==
  \E caller \in Callers(DB), otherUserId \in UserIds \cup {MissingUser} :
    Respond("markRead", caller, [user_id |-> otherUserId],
            markRead(DB, caller, otherUserId))

UnreadCount ==
  \E caller \in Callers(DB) :
    Respond("unreadCount", caller, NULL, unreadCount(DB, caller))

DeleteMessage ==
  \E caller \in Callers(DB), messageId \in 1..MaxMessages :
    Respond("deleteMessage", caller, [id |-> messageId],
            deleteMessage(DB, caller, messageId))

\* Categories as POST /categories leaves them; the listings are all in the first
SeedCategories == {[id |-> 1, name |-> "electronics"], [id |-> 2, name |-> "fashion"]}

CategoryIds == {c.id : c \in SeedCategories}
MissingCategory == 3     \* an id no row of categories has

DeleteCategory ==
  \E caller \in Callers(DB), categoryId \in CategoryIds \cup {MissingCategory} :
    Respond("deleteCategory", caller, [id |-> categoryId],
            deleteCategory(DB, caller, categoryId))

\* PUT /users/:id bodies: a promotion with verification, and a demotion
UserUpdates == {[is_verified |-> TRUE, role |-> "admin"],
                [is_verified |-> FALSE, role |-> "user"]}

UpdateUser ==
  \E caller \in Callers(DB), userId \in UserIds \cup {MissingUser}, body \in UserUpdates :
    Respond("updateUser", caller,
            [id |-> userId, is_verified |-> body.is_verified, role |-> body.role],
            updateUser(DB, caller, userId, body))

\* the texts of :id in DELETE /users/:id: the decimal text of each id, the
\* binary text of id 1, and a text that is no number
UserIdTexts == {Text(n) : n \in UserIds \cup {MissingUser}} \cup {<<"0", "b", "1">>, <<"x">>}

\* every text against the decimal server, the binary text against both
DeleteUserRequests ==
  {r \in [userId : UserIdTexts, grammar : IntegerGrammars] :
     r.grammar = "decimal" \/ isBinary(r.userId)}

\* last.arg.id is the row the text designates to the server (NaN: none)
DeleteUser ==
  \E caller \in Callers(DB), req \in DeleteUserRequests :
    Respond("deleteUser", caller,
            [id |-> integerInput(req.userId, req.grammar), text |-> req.userId,
             grammar |-> req.grammar],
            deleteUser(DB, caller, req.userId, req.grammar))

MaxUsers == 3        \* registrations that get a row
MaxInflight == 2     \* requests between their lookup and their write at one time

Usernames == {<<"a", "m">>, <<"b", "k">>}
Emails == {<<"a", "@", "x">>, <<"b", "@", "x">>}
\* one subscriber number written in two ways
Phones == {<<"0", "7", "1", "2", "3", "4", "5", "6", "7", "8">>,
           <<"+", "2", "5", "5", "7", "1", "2", "3", "4", "5", "6", "7", "8">>}
GoodPassword == <<"s", "e", "c", "r", "e", "t">>

\* a well-formed body
GoodRegistration ==
  [username |-> <<"a", "m">>, email |-> <<"a", "@", "x">>,
   phone |-> <<"0", "7", "1", "2", "3", "4", "5", "6", "7", "8">>,
   password |-> GoodPassword]

\* Bodies of POST /register: the well-formed ones, and the ones with one field
\* missing or wrong
RegisterRequests ==
  [username : Usernames, email : Emails, phone : Phones, password : {GoodPassword}]
  \cup {[GoodRegistration EXCEPT !.username = <<>>],
        [GoodRegistration EXCEPT !.email = <<"a", "x">>],
        [GoodRegistration EXCEPT !.phone = <<"0", "5", "1", "2", "3", "4", "5", "6", "7", "8">>],
        [GoodRegistration EXCEPT !.password = <<"a", "b", "c">>]}

\* The request runs up to the await that follows its lookup: it has answered
\* 400, or it is in flight
RegisterLookup ==
  \E body \in RegisterRequests :
    LET r == registerLookup(DB, body) IN
    IF r.out.awaits
    THEN /\ Cardinality(inflight) < MaxInflight
         /\ seq.users + Cardinality(inflight) <= MaxUsers
         /\ inflight' = inflight \cup
              {[slot |-> CHOOSE n \in 1..MaxInflight :
                           ~\E q \in inflight : q.slot = n,
                body |-> body]}
         /\ UNCHANGED <<users, categories, products, product_images, payments,
                        messages, favorites, seq, last, tick, pool>>
    ELSE Respond("register", NULL, body, r)

\* A request in flight resumes: it inserts and answers
RegisterInsert ==
  \E q \in inflight :
    /\ Reply("register", NULL, q.body, registerInsert(DB, q.body))
    /\ inflight' = inflight \ {q}
    /\ pool' = [pool EXCEPT !.events = <<>>]

MaxFavorites == 3    \* inserts into favorites, failed ones included

\* a free slot for a request that goes in flight
FreeSlot == CHOOSE n \in 1..MaxInflight : ~\E q \in inflight : q.slot = n

\* The request runs up to pool.connect(): it has answered 400 or 404, or it is
\* in flight
ProcessLookup ==
  \E caller \in Callers(DB), req \in {r \in PaymentRequests : r.failAt = 0} :
    LET body == [product_id |-> req.product_id, amount |-> req.amount,
                 payment_method |-> req.fields, phone_number |-> req.fields]
        r == processPaymentLookup(DB, caller, body)
    IN  IF r.out.awaits
        THEN /\ Cardinality(inflight) < MaxInflight
             /\ seq.payments + Cardinality(inflight) <= MaxPayments
             /\ inflight' = inflight \cup
                  {[slot |-> FreeSlot, caller |-> caller, body |-> body]}
             /\ UNCHANGED <<users, categories, products, product_images, payments,
                            messages, favorites, seq, last, tick, pool>>
        ELSE Respond("processPayment", caller, body, r)

\* A request in flight runs its transaction and answers
ProcessCommit ==
  \E q \in inflight :
    /\ Reply("processPayment", q.caller, q.body,
             processPaymentCommit(DB, q.caller, q.body))
    /\ inflight' = inflight \ {q}
    /\ pool' = [pool EXCEPT !.events = <<>>]

\* The request runs up to its write: it has answered 404, or it is in flight
\* with what its lookup found.  rival: another request of the caller on the
\* product that was in flight at the same time, its lookup having found no
\* favorite either, has answered is_favorite true since
ToggleLookup ==
  \E caller \in Callers(DB), productId \in ProductIds :
    LET r == toggleFavoriteLookup(DB, caller, productId) IN
    IF r.out.awaits
    THEN /\ Cardinality(inflight) < MaxInflight
         /\ seq.favorites + Cardinality({q \in inflight : ~q.found}) <= MaxFavorites
         /\ inflight' = inflight \cup
              {[slot |-> FreeSlot, caller |-> caller, id |-> productId,
                found |-> r.out.found, rival |-> FALSE]}
         /\ UNCHANGED <<users, categories, products, product_images, payments,
                        messages, favorites, seq, last, tick, pool>>
    ELSE Respond("toggleFavorite", caller,
                 [id |-> productId, found |-> FALSE, rival |-> FALSE], r)

\* A request in flight writes and answers
ToggleWrite ==
  \E q \in inflight :
    LET r == toggleFavoriteWrite(DB, q.caller, q.id, q.found)
        added == ~q.found /\ r.status = 200
    IN  /\ Reply("toggleFavorite", q.caller,
                 [id |-> q.id, found |-> q.found, rival |-> q.rival], r)
        /\ inflight' = {IF added /\ o.caller = q.caller /\ o.id = q.id /\ ~o.found
                        THEN [o EXCEPT !.rival = TRUE] ELSE o : o \in inflight \ {q}}
        /\ pool' = [pool EXCEPT !.events = <<>>]

\* The request runs up to its delete: it has answered 400, 403 or 404, or it is
\* in flight
DeleteCategoryLookup ==
  \E caller \in Callers(DB), categoryId \in CategoryIds \cup {MissingCategory} :
    LET r == deleteCategoryLookup(DB, caller, categoryId) IN
    IF r.out.awaits
    THEN /\ Cardinality(inflight) < MaxInflight
         /\ inflight' = inflight \cup
              {[slot |-> FreeSlot, caller |-> caller, id |-> categoryId]}
         /\ UNCHANGED <<users, categories, products, product_images, payments,
                        messages, favorites, seq, last, tick, pool>>
    ELSE Respond("deleteCategory", caller, [id |-> categoryId], r)

\* A request in flight deletes and answers
DeleteCategoryWrite ==
  \E q \in inflight :
    /\ Reply("deleteCategory", q.caller, [id |-> q.id], deleteCategoryWrite(DB, q.id))
    /\ inflight' = inflight \ {q}
    /\ pool' = [pool EXCEPT !.events = <<>>]

(***************************************************************************)
(* Databases the server runs against                                       *)
(***************************************************************************)
SeedUsers == {[id |-> 1, role |-> "admin", is_verified |-> TRUE],
              [id |-> 2, role |-> "user", is_verified |-> FALSE],
              [id |-> 3, role |-> "user", is_verified |-> FALSE]}

\* the two sellers alone
SeedSellers == {u \in SeedUsers : u.role = "user"}

NoRequest == [op |-> "none", caller |-> NULL, arg |-> NULL, status |-> 0, out |-> NULL]

\* Listings of users 2 and 3 as POST /products and PUT /products/:id leave them
SeedProducts ==
  {{[id |-> 1, user_id |-> 2, category_id |-> 1, price |-> p1, is_active |-> a1,
     location |-> "dar", condition |-> "used", title |-> "phone"],
    [id |-> 2, user_id |-> 3, category_id |-> 1, price |-> p2, is_active |-> a2,
     location |-> "dar", condition |-> "used", title |-> "phone"]} :
     p1 \in Prices, p2 \in Prices, a1 \in BOOLEAN, a2 \in BOOLEAN}

InitPay ==
  /\ users = SeedUsers
  /\ categories = SeedCategories
  /\ products \in SeedProducts
  /\ product_images = {}
  /\ payments = {}
  /\ messages = {}
  /\ favorites = {}
  /\ seq = [products |-> 3, product_images |-> 1, payments |-> 1, messages |-> 1]
  /\ last = NoRequest
  /\ tick = FALSE
  /\ pool = IdlePool
  /\ inflight = {}

NextPay == ProcessPayment \/ CancelPayment

SpecPay == InitPay /\ [][NextPay]_vars

\* Payment rows do not leave the handlers in status 'pending' (the row is
\* completed inside the transaction that inserts it), while the schema's default
\* status is 'pending': a database holding such a row, written by other means
SeedPending ==
  {{[id |-> 1, user_id |-> 3, product_id |-> 1, amount |-> a,
     status |-> "pending", transaction_id |-> NoTxn]} : a \in Prices}

InitPending ==
  /\ users = SeedUsers
  /\ categories = SeedCategories
  /\ products \in SeedProducts
  /\ product_images = {}
  /\ payments \in SeedPending
  /\ messages = {}
  /\ favorites = {}
  /\ seq = [products |-> 3, product_images |-> 1, payments |-> 2, messages |-> 1]
  /\ last = NoRequest
  /\ tick = FALSE
  /\ pool = IdlePool
  /\ inflight = {}

SpecPending == InitPending /\ [][NextPay]_vars

InitProducts ==
  /\ users = SeedSellers
  /\ categories = SeedCategories
  /\ products = {}
  /\ product_images = {}
  /\ payments = {}
  /\ messages = {}
  /\ favorites = {}
  /\ seq = [products |-> 1, product_images |-> 1, payments |-> 1, messages |-> 1]
  /\ last = NoRequest
  /\ tick = FALSE
  /\ pool = IdlePool
  /\ inflight = {}

NextProducts == CreateProduct \/ DeleteProduct

SpecProducts == InitProducts /\ [][NextProducts]_vars

\* Favorites over the listings of SeedProducts
InitFav ==
  /\ users = SeedUsers
  /\ categories = SeedCategories
  /\ products \in SeedProducts
  /\ product_images = {}
  /\ payments = {}
  /\ messages = {}
  /\ favorites = {}
  /\ seq = [products |-> 3, product_images |-> 1, payments |-> 1, messages |-> 1]
  /\ last = NoRequest
  /\ tick = FALSE
  /\ pool = IdlePool
  /\ inflight = {}

NextFav == ToggleFavorite \/ DeleteProduct

SpecFav == InitFav /\ [][NextFav]_vars

\* Favorites and payments as the toggle and process endpoints leave them
SeedFavorites == {[user_id |-> 2, product_id |-> 2], [user_id |-> 3, product_id |-> 1]}

SeedPayments ==
  {[id |-> 1, user_id |-> 3, product_id |-> 1, amount |-> 1,
    status |-> "completed", transaction_id |-> "TXN"]}

\* Messages as POST /messages and the read endpoints leave them
SeedMessages ==
  {[id |-> 1, sender_id |-> 2, receiver_id |-> 3, product_id |-> 2, is_read |-> FALSE],
   [id |-> 2, sender_id |-> 3, receiver_id |-> 2, product_id |-> NULL, is_read |-> FALSE]}

\* The list endpoints over a seeded marketplace
InitList ==
  /\ users = SeedUsers
  /\ categories = SeedCategories
  /\ products \in {ps \in SeedProducts :
                     \A p \in ps : p.price = p.id /\ (p.id = 1 => p.is_active)}
  /\ product_images = {}
  /\ payments = SeedPayments
  /\ messages = SeedMessages
  /\ favorites = SeedFavorites
  /\ seq = [products |-> 3, product_images |-> 1, payments |-> 2, messages |-> 3]
  /\ last = NoRequest
  /\ tick = FALSE
  /\ pool = IdlePool
  /\ inflight = {}

NextList ==
  \/ ListProducts
  \/ ListMyPayments
  \/ ListSellerSales
  \/ ListUserProducts
  \/ ListUserFavorites
  \/ GetConversation

SpecList == InitList /\ [][NextList]_vars

\* Messaging between the three users about the seeded listings
InitMessages ==
  /\ users = SeedUsers
  /\ categories = SeedCategories
  /\ products \in {ps \in SeedProducts : \A p \in ps : p.price = 1 /\ p.is_active}
  /\ product_images = {}
  /\ payments = {}
  /\ messages = SeedMessages
  /\ favorites = {}
  /\ seq = [products |-> 3, product_images |-> 1, payments |-> 1, messages |-> 3]
  /\ last = NoRequest
  /\ tick = FALSE
  /\ pool = IdlePool
  /\ inflight = {}

NextMessages ==
  \/ SendMessage
  \/ GetConversation
  \/ MarkRead

SpecMessages == InitMessages /\ [][NextMessages]_vars

\* Administration of categories and users over the seeded marketplace
InitAdmin ==
  /\ users = SeedUsers
  /\ categories = SeedCategories
  /\ products \in {ps \in SeedProducts : \A p \in ps : p.price = p.id}
  /\ product_images = {}
  /\ payments = {}
  /\ messages = SeedMessages
  /\ favorites = SeedFavorites
  /\ seq = [products |-> 3, product_images |-> 1, payments |-> 1, messages |-> 3]
  /\ last = NoRequest
  /\ tick = FALSE
  /\ pool = IdlePool
  /\ inflight = {}

NextAdmin ==
  \/ DeleteCategory
  \/ UpdateUser
  \/ DeleteUser
  \/ DeleteProduct

SpecAdmin == InitAdmin /\ [][NextAdmin]_vars

\* The two transactional endpoints where connections can be lost: one listing of
\* user 2 on sale, the sequences (which rollbacks leave gaps in) one payment and
\* one listing short of the bounds
InitPool ==
  /\ users = SeedUsers
  /\ categories = SeedCategories
  /\ products = {[id |-> 1, user_id |-> 2, category_id |-> 1, price |-> 1,
                  is_active |-> TRUE, location |-> "dar", condition |-> "used",
                  title |-> "phone"]}
  /\ product_images = {}
  /\ payments = {}
  /\ messages = {}
  /\ favorites = {}
  /\ seq = [products |-> MaxProducts, product_images |-> MaxImages - MaxFiles + 1,
            payments |-> MaxPayments, messages |-> 1]
  /\ last = NoRequest
  /\ tick = FALSE
  /\ pool = [IdlePool EXCEPT !.lossy = TRUE]
  /\ inflight = {}

NextPool ==
  \/ ProcessPayment
  \/ CreateProduct

SpecPool == InitPool /\ [][NextPool]_vars

\* A listing of user 2 with its primary image and a pending payment of user 3
InitAutocommit ==
  /\ users = SeedSellers
  /\ categories = SeedCategories
  /\ products = {[id |-> 1, user_id |-> 2, category_id |-> 1, price |-> 1,
                  is_active |-> FALSE, location |-> "dar", condition |-> "used",
                  title |-> "phone"]}
  /\ product_images = {[id |-> 1, product_id |-> 1, is_primary |-> TRUE]}
  /\ payments = {[id |-> 1, user_id |-> 3, product_id |-> 1, amount |-> 1,
                  status |-> "pending", transaction_id |-> NoTxn]}
  /\ messages = {}
  /\ favorites = {}
  /\ seq = [products |-> 2, product_images |-> 2, payments |-> 2, messages |-> 1]
  /\ last = NoRequest
  /\ tick = FALSE
  /\ pool = IdlePool
  /\ inflight = {}

\* The handlers that run several statements with pool.query
NextAutocommit ==
  \/ UpdateProduct
  \/ CancelPaymentAt

SpecAutocommit == InitAutocommit /\ [][NextAutocommit]_vars

\* No listing yet; the sequences leave room for one listing with one image
InitUpdate ==
  /\ users = SeedSellers
  /\ categories = SeedCategories
  /\ products = {}
  /\ product_images = {}
  /\ payments = {}
  /\ messages = {}
  /\ favorites = {}
  /\ seq = [products |-> MaxProducts, product_images |-> MaxImages,
            payments |-> 1, messages |-> 1]
  /\ last = NoRequest
  /\ tick = FALSE
  /\ pool = IdlePool
  /\ inflight = {}

\* Listings come from POST /products and are changed by PUT /products/:id
NextUpdate ==
  \/ CreateProduct
  \/ UpdateProduct

SpecUpdate == InitUpdate /\ [][NextUpdate]_vars

\* One listing of user 2, nothing sold yet
InitSold ==
  /\ users = SeedSellers
  /\ categories = SeedCategories
  /\ products = {[id |-> 1, user_id |-> 2, category_id |-> 1, price |-> 1,
                  is_active |-> TRUE, location |-> "dar", condition |-> "used",
                  title |-> "phone"]}
  /\ product_images = {}
  /\ payments = {}
  /\ messages = {}
  /\ favorites = {}
  /\ seq = [products |-> 2, product_images |-> MaxImages + 1,
            payments |-> MaxPayments - 1, messages |-> 1]
  /\ last = NoRequest
  /\ tick = FALSE
  /\ pool = IdlePool
  /\ inflight = {}

NextSold ==
  \/ ProcessPayment
  \/ CancelPayment
  \/ UpdateProduct
  \/ ToggleFavorite

SpecSold == InitSold /\ [][NextSold]_vars

\* The same listing with only its sale and its owner's updates
NextRelist ==
  \/ ProcessPayment
  \/ UpdateProduct

SpecRelist == InitSold /\ [][NextRelist]_vars

\* The database right after initializeSchema: no user yet
InitRegister ==
  /\ users = {}
  /\ categories = SeedCategories
  /\ products = {}
  /\ product_images = {}
  /\ payments = {}
  /\ messages = {}
  /\ favorites = {}
  /\ seq = [users |-> 1, products |-> 1, product_images |-> 1, payments |-> 1,
            messages |-> 1]
  /\ last = NoRequest
  /\ tick = FALSE
  /\ pool = IdlePool
  /\ inflight = {}

NextRegister ==
  \/ RegisterLookup
  \/ RegisterInsert

SpecRegister == InitRegister /\ [][NextRegister]_vars

\* A listing of user 2 with its primary image, and the two seeded messages
\* between users 2 and 3; user 1 owns nothing and is in no message
InitOwner ==
  /\ users = SeedUsers
  /\ categories = SeedCategories
  /\ products = {[id |-> 1, user_id |-> 2, category_id |-> 1, price |-> 1,
                  is_active |-> TRUE, location |-> "dar", condition |-> "used",
                  title |-> "phone"]}
  /\ product_images = {[id |-> 1, product_id |-> 1, is_primary |-> TRUE]}
  /\ payments = {}
  /\ messages = SeedMessages
  /\ favorites = {}
  /\ seq = [products |-> 2, product_images |-> MaxImages, payments |-> 1,
            messages |-> 3]
  /\ last = NoRequest
  /\ tick = FALSE
  /\ pool = IdlePool
  /\ inflight = {}

NextOwner ==
  \/ UpdateProduct
  \/ DeleteProduct
  \/ DeleteMessage

SpecOwner == InitOwner /\ [][NextOwner]_vars

\* The inbox endpoints over the seeded messages
NextInbox ==
  \/ SendMessage
  \/ MarkRead
  \/ UnreadCount
  \/ DeleteMessage

SpecInbox == InitMessages /\ [][NextInbox]_vars

\* One listing of user 2, on sale, and two possible buyers
InitRace ==
  /\ users = SeedUsers
  /\ categories = SeedCategories
  /\ products = {[id |-> 1, user_id |-> 2, category_id |-> 1, price |-> 1,
                  is_active |-> TRUE, location |-> "dar", condition |-> "used",
                  title |-> "phone"]}
  /\ product_images = {}
  /\ payments = {}
  /\ messages = {}
  /\ favorites = {}
  /\ seq = [products |-> 2, product_images |-> 1, payments |-> 1, messages |-> 1]
  /\ last = NoRequest
  /\ tick = FALSE
  /\ pool = IdlePool
  /\ inflight = {}

NextRace ==
  \/ ProcessLookup
  \/ ProcessCommit

SpecRace == InitRace /\ [][NextRace]_vars

\* One listing of user 2, on sale, no favorite yet
InitToggle ==
  /\ users = SeedSellers
  /\ categories = SeedCategories
  /\ products = {[id |-> 1, user_id |-> 2, category_id |-> 1, price |-> 1,
                  is_active |-> TRUE, location |-> "dar", condition |-> "used",
                  title |-> "phone"]}
  /\ product_images = {}
  /\ payments = {}
  /\ messages = {}
  /\ favorites = {}
  /\ seq = [products |-> 2, product_images |-> 1, payments |-> 1, messages |-> 1,
            favorites |-> 1]
  /\ last = NoRequest
  /\ tick = FALSE
  /\ pool = IdlePool
  /\ inflight = {}

NextToggle ==
  \/ ToggleLookup
  \/ ToggleWrite

SpecToggle == InitToggle /\ [][NextToggle]_vars

\* Both categories are empty and one more listing can be created
InitCategory ==
  /\ users = SeedUsers
  /\ categories = SeedCategories
  /\ products = {}
  /\ product_images = {}
  /\ payments = {}
  /\ messages = {}
  /\ favorites = {}
  /\ seq = [products |-> MaxProducts, product_images |-> MaxImages + 1,
            payments |-> 1, messages |-> 1]
  /\ last = NoRequest
  /\ tick = FALSE
  /\ pool = IdlePool
  /\ inflight = {}

NextCategory ==
  \/ DeleteCategoryLookup
  \/ DeleteCategoryWrite
  \/ CreateProduct
  \/ UpdateProduct

SpecCategory == InitCategory /\ [][NextCategory]_vars

(***************************************************************************)
(* Claims                                                                  *)
(***************************************************************************)
ProductRow(rows, id) == {p \in rows : p.id = id}

\* C2: a payment request whose transaction throws after the payment insert
\* (at the status update or at the product update) answers 500, leaves the
\* product's row as it was and leaves no completed payment row of that request.
C2_RollbackIsAtomic ==
  [][(last'.op = "processPayment" /\ last'.out.threw >= 3)
       => /\ last'.status = 500
          /\ ProductRow(products', last'.arg.product_id)
               = ProductRow(products, last'.arg.product_id)
          /\ \A p \in payments' :
               p.id = last'.out.id => p.status # "completed"
          /\ payments' = payments]_vars

C2_Witness ==
  /\ last.op = "processPayment"
  /\ last.out.threw = 3
  /\ last.status = 500

\* The request's caller owns the product it names, or its amount differs from
\* that product's price
SelfOrMismatch(req, rows) ==
  \E p \in rows :
    /\ p.id = req.arg.product_id
    /\ (p.user_id = req.caller \/ req.arg.amount # p.price)

\* C3 as stated: every self-purchase or price-mismatched request gets a 400 and
\* changes neither the payments table nor the product.
C3_Original ==
  [][(last'.op = "processPayment" /\ SelfOrMismatch(last', products))
       => /\ last'.status = 400
          /\ payments' = payments
          /\ products' = products]_vars

\* C3 amended: such a request is rejected before any payment row is inserted,
\* with a 404 when all required fields are present and the product is not
\* active, and with a 400 otherwise; payments and products are unchanged.
C3_RejectedBeforeInsert ==
  [][(last'.op = "processPayment" /\ SelfOrMismatch(last', products))
       => /\ payments' = payments
          /\ products' = products
          /\ LET complete == /\ last'.arg.amount # 0
                              /\ last'.arg.payment_method
                              /\ last'.arg.phone_number
                  inactive == \E p \in products :
                                p.id = last'.arg.product_id /\ ~p.is_active
              IN  last'.status = IF complete /\ inactive THEN 404 ELSE 400]_vars

C3_Witness ==
  /\ last.op = "processPayment"
  /\ last.status = 400
  /\ last.arg.amount # 0 /\ last.arg.payment_method
  /\ \E p \in products :
       p.id = last.arg.product_id /\ p.is_active /\ p.user_id = last.caller

\* C4: a payment request that answers 200 has added exactly one payment row,
\* completed and with a transaction id, and has left the product inactive; a
\* request that does not answer 200 has added no row and changed no product.
C4_CommitIsOneUnit ==
  [][last'.op = "processPayment"
       => IF last'.status = 200
          THEN /\ \E row \in payments' :
                    /\ payments' = payments \cup {row}
                    /\ row \notin payments
                    /\ row.id = last'.out.id
                    /\ row.user_id = last'.caller
                    /\ row.product_id = last'.arg.product_id
                    /\ row.status = "completed"
                    /\ row.transaction_id # NoTxn
               /\ \E p \in products :
                    /\ p.id = last'.arg.product_id /\ p.is_active
                    /\ products' = (products \ {p})
                                     \cup {[p EXCEPT !.is_active = FALSE]}
          ELSE payments' = payments /\ products' = products]_vars

C4_Witness ==
  /\ last.op = "processPayment"
  /\ last.status = 200
  /\ \E row \in payments : row.id = last.out.id /\ row.status = "completed"

\* C5: cancelling a pending payment of the caller answers 200, sets that payment
\* to 'cancelled' and its product to active and changes no other row; any other
\* cancel request answers 404 and changes no payment and no product.
C5_Cancel ==
  [][last'.op = "cancelPayment"
       => LET pre == {p \in payments : /\ p.id = last'.arg.id
                                       /\ p.user_id = last'.caller
                                       /\ p.status = "pending"}
          IN  IF pre # {}
              THEN /\ last'.status = 200
                   /\ payments' = {IF p \in pre THEN [p EXCEPT !.status = "cancelled"]
                                                ELSE p : p \in payments}
                   /\ products' = {IF \E q \in pre : q.product_id = p.id
                                   THEN [p EXCEPT !.is_active = TRUE]
                                   ELSE p : p \in products}
              ELSE /\ last'.status = 404
                   /\ payments' = payments
                   /\ products' = products]_vars

\* a cancel that reactivated a product which was inactive
C5_Witness ==
  /\ last.op = "cancelPayment"
  /\ last.status = 200
  /\ \E p \in payments : p.id = last.arg.id /\ p.status = "cancelled"
  /\ \E p \in products : p.id = last.out.product_id /\ p.is_active

Favorite(rows, u, p) == [user_id |-> u, product_id |-> p] \in rows

\* C6 as stated: of two consecutive toggles of one user on one product, the
\* second leaves the user's favorite on the product as it was before the first,
\* and the two responses report opposite is_favorite values.
C6_Original ==
  [][(last'.op = "toggleFavorite" /\ last'.arg.again
        /\ \E p \in products : p.id = last'.arg.id)
       => /\ Favorite(favorites', last'.caller, last'.arg.id) = last.arg.before
          /\ {last.out.is_favorite, last'.out.is_favorite} = {"true", "false"}]_vars

\* C6 amended: on an active product the second of two consecutive toggles
\* restores the favorite as it was before the first, no other favorite row
\* changes, and the two responses report opposite is_favorite values; on a
\* product that is not active both calls answer 404 and change nothing.
C6_TogglePairs ==
  [][(last'.op = "toggleFavorite" /\ last'.arg.again
        /\ \E p \in products : p.id = last'.arg.id)
       => IF \E p \in products : p.id = last'.arg.id /\ p.is_active
          THEN /\ Favorite(favorites', last'.caller, last'.arg.id) = last.arg.before
               /\ \A f \in favorites \cup favorites' :
                    (f.user_id # last'.caller \/ f.product_id # last'.arg.id)
                      => (f \in favorites <=> f \in favorites')
               /\ last.status = 200 /\ last'.status = 200
               /\ {last.out.is_favorite, last'.out.is_favorite} = {"true", "false"}
          ELSE /\ last.status = 404 /\ last'.status = 404
               /\ favorites' = favorites]_vars

\* the second toggle of a pair has removed the favorite the first one added
C6_Witness ==
  /\ last.op = "toggleFavorite"
  /\ last.arg.again
  /\ last.status = 200
  /\ last.out.is_favorite = "false"
  /\ ~Favorite(favorites, last.caller, last.arg.id)

NewImages(before, after) == after \ before

\* C7: a product creation that answers 201 with N files has added exactly one
\* product row and exactly N image rows, all of that product, the first inserted
\* (least id) primary and the others not; a creation that does not answer 201,
\* as when an insert throws, has added no product row and no image row.
C7_CreateWithImages ==
  [][last'.op = "createProduct"
       => /\ last'.out.threw >= 2 => last'.status = 500
          /\ IF last'.status = 201
             THEN /\ \E row \in products' :
                       /\ row \notin products
                       /\ row.id = last'.out.id
                       /\ products' = products \cup {row}
                  /\ product_images \subseteq product_images'
                  /\ LET new == NewImages(product_images, product_images') IN
                       /\ Cardinality(new) = last'.arg.nfiles
                       /\ \A i \in new :
                            /\ i.product_id = last'.out.id
                            /\ i.is_primary = (\A j \in new : i.id <= j.id)
             ELSE /\ products' = products
                  /\ product_images' = product_images]_vars

\* a creation with the largest number of files, and one rolled back at an image
C7_Witness ==
  /\ last.op = "createProduct"
  /\ last.status = 201
  /\ last.arg.nfiles = MaxFiles
  /\ Cardinality({i \in product_images : i.product_id = last.out.id}) = MaxFiles

C7_WitnessRollback ==
  /\ last.op = "createProduct"
  /\ last.status = 500
  /\ last.out.threw = 4
\* The rows a list request's WHERE predicate selects from the tables
Matching ==
  LET a == last.arg IN
  CASE last.op = "listProducts" -> productsWhere(DB, a, last.caller)
    [] last.op = "listMyPayments" -> myPaymentsWhere(DB, last.caller, a)
    [] last.op = "listSellerSales" -> sellerSalesWhere(DB, last.caller, a)
    [] last.op = "listUserProducts" -> userProductsWhere(DB, a.id, a)
    [] last.op = "listUserFavorites" -> userFavoritesWhere(DB, a.id)
    [] last.op = "getConversation" -> conversationWhere(DB, last.caller, a.user_id, a)

\* a list request the endpoint admits: the favorites of another user are for
\* admins only, and a conversation needs an existing counterpart
ListRequest ==
  /\ last.op \in {"listProducts", "listMyPayments", "listSellerSales",
                  "listUserProducts", "listUserFavorites", "getConversation"}
  /\ last.op = "listUserFavorites" =>
       (last.arg.id = last.caller \/ authenticateJWT(DB, last.caller).role = "admin")
  /\ last.op = "getConversation" => \E u \in users : u.id = last.arg.user_id

\* C1 (as stated): every list request, whatever filters are present, succeeds,
\* and its pagination.total is the number of rows the WHERE predicate selects.
C1_Original ==
  ListRequest => last.status = 200 /\ last.out.total = Cardinality(Matching)

\* a GET /products without any filter has been answered, with a 500
C1_Witness ==
  /\ last.op = "listProducts"
  /\ last.arg = NoFilter
  /\ last.status = 500
  /\ \E p \in products : p.is_active

\* what the handlers do instead: no admitted list request is ever answered 200
ListRequestsThrow == ListRequest => last.status = 500

\* C8 (as stated): fetching the conversation with an existing counterpart sets
\* is_read on exactly the messages the counterpart sent to the caller and
\* leaves every other message as it was.
C8_Original ==
  [][(last'.op = "getConversation" /\ \E u \in users : u.id = last'.arg.user_id)
       => messages' = {IF m.sender_id = last'.arg.user_id /\ m.receiver_id = last'.caller
                       THEN [m EXCEPT !.is_read = TRUE] ELSE m : m \in messages}]_vars

\* the conversation with an existing counterpart has been fetched while a
\* message of the counterpart to the caller is unread
C8_Witness ==
  /\ last.op = "getConversation"
  /\ last.status = 500
  /\ \E m \in messages :
       m.sender_id = last.arg.user_id /\ m.receiver_id = last.caller /\ ~m.is_read

\* PUT /messages/read/:user_id does what the fetch was to do
MarkReadMarksExactly ==
  [][last'.op = "markRead"
       => messages' = {IF m.sender_id = last'.arg.user_id /\ m.receiver_id = last'.caller
                       THEN [m EXCEPT !.is_read = TRUE] ELSE m : m \in messages}]_vars
\* C9: DELETE /categories/:id on an existing category that a product, active or
\* not, references is answered 400 and leaves the category and every product's
\* category_id as they were; a category is deleted only when no product
\* references it.
C9_DeleteCategory ==
  [][last'.op = "deleteCategory" =>
       LET id == last'.arg.id
           referenced == \E p \in products : p.category_id = id
       IN  /\ ((\E c \in categories : c.id = id) /\ referenced
                 /\ authenticateJWT(DB, last'.caller).role = "admin")
                => /\ last'.status = 400
                   /\ categories' = categories
                   /\ products' = products
           /\ categories' # categories
                => /\ ~referenced
                   /\ last'.status = 200
                   /\ categories' = {c \in categories : c.id # id}
                   /\ products' = products]_vars

\* the admin was refused the deletion of a category that only a listing that is
\* no longer active references
C9_Witness ==
  /\ last.op = "deleteCategory"
  /\ last.status = 400
  /\ \E p \in products : p.category_id = last.arg.id
  /\ \A p \in products : p.category_id = last.arg.id => ~p.is_active

\* the admin deleted a category that no listing references any more
C9_WitnessDeleted ==
  /\ last.op = "deleteCategory"
  /\ last.status = 200
  /\ last.arg.id = 1

\* C10: a caller whose role is not 'admin' gets a 403 from PUT /users/:id and
\* from DELETE /users/:id, and the users table stays as it was.
C10_AdminOnly ==
  [][(/\ last'.op \in {"updateUser", "deleteUser"}
      /\ authenticateJWT(DB, last'.caller).role # "admin")
       => last'.status = 403 /\ users' = users]_vars

\* a user asked to be made a verified admin, and was refused
C10_Witness ==
  /\ last.op = "updateUser"
  /\ last.status = 403
  /\ last.arg.id = last.caller
  /\ last.arg.role = "admin"
  /\ \E u \in users : u.id = last.caller /\ u.role = "user" /\ ~u.is_verified

\* a user asked for the deletion of another user's account, and was refused
C10_WitnessDelete ==
  /\ last.op = "deleteUser"
  /\ last.status = 403
  /\ last.arg.id # last.caller
  /\ \E u \in users : u.id = last.arg.id
\* C11 (as stated): an admin's DELETE /users/:id whose :id designates the
\* admin's own account is answered 400 and deletes nothing, so the account of
\* the caller of a user deletion is still there afterwards.
C11_Original ==
  [][last'.op = "deleteUser" =>
       /\ (authenticateJWT(DB, last'.caller).role = "admin" /\ last'.arg.id = last'.caller)
            => last'.status = 400 /\ users' = users
       /\ \E u \in users' : u.id = last'.caller]_vars

\* an admin's deletion request was answered 200 and the admin's account is gone
C11_Witness ==
  /\ last.op = "deleteUser"
  /\ last.status = 200
  /\ last.arg.id = last.caller
  /\ ~\E u \in users : u.id = last.caller

\* against a server that reads decimal integers only, the self-deletion check
\* does what C11 says
SelfDeleteBlockedOnDecimal ==
  [][(last'.op = "deleteUser" /\ last'.arg.grammar = "decimal") =>
       /\ (authenticateJWT(DB, last'.caller).role = "admin" /\ last'.arg.id = last'.caller)
            => last'.status = 400 /\ users' = users
       /\ \E u \in users' : u.id = last'.caller]_vars
\* C12 (as stated): every list response carries a pagination whose total_pages
\* is ceil(total / limit) for the total and limit of that response, and is 0
\* when total is 0.
C12_Original ==
  ListRequest =>
    /\ last.status = 200
    /\ last.out.total_pages = ceilDiv(last.out.total, last.out.limit)
    /\ last.out.total = 0 => last.out.total_pages = 0

\* the payments of a user who has none were asked for, and the answer is a 500
C12_Witness ==
  /\ last.op = "listMyPayments"
  /\ myPaymentsWhere(DB, last.caller, last.arg) = {}
  /\ last.status = 500

\* The row statement and parameter list a list request assembles, and the
\* pattern its handler derives the count statement with
Built ==
  LET a == last.arg IN
  CASE last.op = "listProducts" -> productsQuery(a, last.caller)
    [] last.op = "listMyPayments" -> paymentsQuery(myPaymentsSelect, a)
    [] last.op = "listSellerSales" -> paymentsQuery(sellerSalesSelect, a)
    [] last.op = "listUserProducts" -> userProductsQuery(a)
    [] last.op = "listUserFavorites" -> userFavoritesQuery(a)
    [] last.op = "getConversation" ->
         conversationQuery([product_id |-> a.product_id, page |-> 1, limit |-> MaxLimit])

CountPattern ==
  CASE last.op = "listProducts" -> productsCountPattern
    [] last.op \in {"listMyPayments", "listSellerSales"} -> paymentsCountPattern
    [] last.op \in {"listUserProducts", "listUserFavorites"} -> userListCountPattern
    [] last.op = "getConversation" -> conversationCountPattern

CountStatement == replace(Built.query, CountPattern, CountProjection)

Suffixes == {"ORDER BY", "LIMIT", "OFFSET"}

\* the tokens of a statement without its line breaks
Flat(text) == SelectSeq(text, LAMBDA t : t # NL)

\* the WHERE predicate of a statement: from its WHERE up to its suffix
WherePredicate(text) ==
  LET flat == Flat(text)
      from == CHOOSE i \in 1..Len(flat) :
                flat[i] = "WHERE" /\ \A j \in 1..(i - 1) : flat[j] # "WHERE"
      ends == {i \in from..Len(flat) : flat[i] \in Suffixes}
      to == IF ends = {} THEN Len(flat)
            ELSE (CHOOSE i \in ends : \A j \in ends : i <= j) - 1
  IN  SubSeq(flat, from, to)

\* C13 (as stated): the count statement of every list request is the bare
\* COUNT(*) projection followed by the FROM and WHERE of the row statement,
\* without ORDER BY, LIMIT or OFFSET, and each of its placeholders has a value
\* in the row parameter list without its last two entries.
C13_Original ==
  ListRequest =>
    LET count == Flat(CountStatement) IN
    /\ SubSeq(count, 1, Len(CountProjection)) = CountProjection
    /\ \A i \in 1..Len(count) : count[i] \notin Suffixes
    /\ WherePredicate(CountStatement) = WherePredicate(Built.query)
    /\ maxPlaceholder(CountStatement) <= Len(countParams(Built.params))

\* the active listings of a user were asked for: the count statement is the row
\* statement, LIMIT $3 OFFSET $4 included, sent with two values
C13_Witness ==
  /\ last.op = "listUserProducts"
  /\ last.arg.is_active = "true"
  /\ CountStatement = Built.query
  /\ maxPlaceholder(CountStatement) = 4
  /\ Len(countParams(Built.params)) = 2
  /\ last.status = 500
\* every spelling of asc in upper and lower case
AscSpellings == {<<a, s, c>> : a \in {"a", "A"}, s \in {"s", "S"}, c \in {"c", "C"}}

\* C20: the ORDER BY of GET /products names the requested sort_by when it is on
\* the allow-list {created_at, price, views, favorite_count} and created_at
\* otherwise; its direction is 'asc' for an order that spells asc in any case
\* and 'desc' for every other order; the requested texts are nowhere else in
\* the statement.
C20_SortAllowList ==
  last.op = "listProducts" =>
    LET text == Flat(Built.query)
        i == CHOOSE k \in 1..Len(text) : text[k] = "ORDER BY"
        allowed == {"created_at", "price", "views", "favorite_count"}
    IN  /\ text[i + 1] = "p."
        /\ text[i + 2] \in allowed
        /\ text[i + 2] = (IF last.arg.sort_by \in allowed THEN last.arg.sort_by
                          ELSE "created_at")
        /\ text[i + 3] \in {"asc", "desc"}
        /\ text[i + 3] = "asc" <=> last.arg.order \in AscSpellings
        /\ \A k \in 1..Len(text) :
             k \notin {i + 2, i + 3} => text[k] \notin allowed \cup {"asc", "desc", "title"}

\* a listing sorted by a column off the allow-list, in an order that is none
C20_Witness ==
  /\ last.op = "listProducts"
  /\ last.arg.sort_by = "title"
  /\ last.arg.order = <<"x">>

\* a listing sorted by price, ascending, asked for in capitals
C20_WitnessAsc ==
  /\ last.op = "listProducts"
  /\ last.arg.sort_by = "price"
  /\ last.arg.order = <<"A", "S", "C">>
\* C14: POST /messages without receiver_id or content is answered 400, with an
\* unknown receiver or an unknown product 404, and the messages stay as they
\* were; a message is inserted only for an existing receiver and, if a product
\* is named, an existing product, and then it is exactly one row, sent by the
\* caller and unread.
C14_SendMessage ==
  [][last'.op = "sendMessage" =>
       LET body == last'.arg
           incomplete == body.receiver_id = NULL \/ ~body.content
           knownReceiver == \E u \in users : u.id = body.receiver_id
           knownProduct == \E p \in products : p.id = body.product_id
       IN  /\ incomplete => last'.status = 400 /\ messages' = messages
           /\ (~incomplete /\ ~knownReceiver) => last'.status = 404 /\ messages' = messages
           /\ (~incomplete /\ body.product_id # NULL /\ ~knownProduct)
                => last'.status = 404 /\ messages' = messages
           /\ last'.status = 201 <=> messages' # messages
           /\ messages' # messages =>
                /\ knownReceiver
                /\ body.product_id # NULL => knownProduct
                /\ \E m \in messages' :
                     /\ messages' = messages \cup {m}
                     /\ \A old \in messages : old.id # m.id
                     /\ m.sender_id = last'.caller
                     /\ m.receiver_id = body.receiver_id
                     /\ m.product_id = body.product_id
                     /\ ~m.is_read]_vars

\* user 2 has asked user 3 about listing 1, and the message is stored
C14_Witness ==
  /\ last.op = "sendMessage"
  /\ last.status = 201
  /\ last.arg.product_id = 1
  /\ \E m \in messages : m.id = last.out.id /\ m.sender_id = 2 /\ m.receiver_id = 3

\* a message to a user who does not exist was turned down
C14_WitnessUnknownReceiver ==
  /\ last.op = "sendMessage"
  /\ last.status = 404
  /\ last.arg.receiver_id = MissingUser
\* the position of an event in the events of the latest request (0: absent)
At(e) ==
  LET at == {i \in 1..Len(pool.events) : pool.events[i] = e} IN
  IF at = {} THEN 0 ELSE CHOOSE i \in at : \A j \in at : i <= j

Transactional == last.op \in {"createProduct", "processPayment"}

\* C15 (as stated): a transactional request releases the connection it checked
\* out exactly once, before it responds, whatever the outcome, and no
\* connection stays checked out.
C15_Original ==
  Transactional =>
    /\ occurrences(pool.events, "release") = occurrences(pool.events, "connect")
    /\ occurrences(pool.events, "connect") <= 1
    /\ At("connect") # 0 => At("connect") < At("release") /\ At("release") < At("respond")
    /\ pool.checkedOut = 0

\* C15 amended: a transactional request releases the connection it checked out
\* exactly once, whatever the outcome, and no connection stays checked out; a
\* failed transaction releases it before the 500 is sent, a committed one right
\* after the response is sent.
C15_ReleasedOnce ==
  Transactional =>
    /\ occurrences(pool.events, "release") = occurrences(pool.events, "connect")
    /\ occurrences(pool.events, "connect") <= 1
    /\ occurrences(pool.events, "respond") = 1
    /\ At("connect") # 0 => At("connect") < At("release")
    /\ last.status = 500 => At("release") < At("respond")
    /\ last.status \in {200, 201} => At("respond") < At("release") /\ At("COMMIT") # 0
    /\ pool.checkedOut = 0

\* a payment whose transaction failed and whose ROLLBACK failed as well
C15_Witness ==
  /\ last.op = "processPayment"
  /\ last.status = 500
  /\ At("ROLLBACK throws") # 0
  /\ At("release") # 0

\* a product creation that committed
C15_WitnessCommit ==
  /\ last.op = "createProduct"
  /\ last.status = 201
  /\ At("release") # 0
\* the handlers of SpecAutocommit, none of them transactional
Autocommit == {"updateProduct", "cancelPayment"}

\* C16 as stated: a request of a handler other than product creation and payment
\* processing has at most one mutating statement take effect.
C16_Original ==
  [][last'.op \in Autocommit => last'.out.mutations <= 1]_vars

\* a cancel that failed on its second statement: the payment is cancelled, its
\* product is still unlisted
C16_Witness ==
  /\ last.op = "cancelPayment"
  /\ last.status = 500
  /\ \E p \in payments : /\ p.id = last.arg.id
                         /\ p.status = "cancelled"
                         /\ \E q \in products : q.id = p.product_id /\ ~q.is_active

\* an update that failed after deleting the old images and before inserting all
\* the new ones: the product is left with no primary image
C16_WitnessUpdate ==
  /\ last.op = "updateProduct"
  /\ last.status = 500
  /\ last.out.mutations > 1
  /\ ~\E i \in product_images : i.product_id = last.arg.id /\ i.is_primary

\* C17 as stated: every product row has a price above zero, whatever product
\* create and update requests came before.
C17_Original == \A p \in products : p.price > 0

\* an update answered 200 that left its product with a price that is zero,
\* negative or not a number
C17_Witness ==
  /\ last.op = "updateProduct"
  /\ last.status = 200
  /\ \E p \in products : p.id = last.arg.id /\ p.price <= 0

\* the same with the price NaN
C17_WitnessNaN ==
  /\ last.op = "updateProduct"
  /\ last.status = 200
  /\ \E p \in products : p.id = last.arg.id /\ p.price = NaN

\* C18 as stated: a product with a completed payment is not active.
C18_Original ==
  \A p \in products :
    (\E pay \in payments : pay.product_id = p.id /\ pay.status = "completed")
      => ~p.is_active

\* the owner's update answered 200 and relisted a product that was sold
C18_Witness ==
  /\ last.op = "updateProduct"
  /\ last.status = 200
  /\ \E p \in products :
       /\ p.id = last.arg.id
       /\ p.is_active
       /\ \E pay \in payments : pay.product_id = p.id /\ pay.status = "completed"

\* the relisted product sold a second time
C18_WitnessSoldTwice ==
  \E p1, p2 \in payments :
    /\ p1.id # p2.id
    /\ p1.product_id = p2.product_id
    /\ p1.status = "completed"
    /\ p2.status = "completed"

\* the rows of `rows` that repeat the username, the email or the phone of body
Colliding(rows, body) ==
  {u \in rows : \/ u.username = body.username
                \/ u.email = body.email
                \/ u.phone = body.phone}

\* C19: however registration requests interleave, no two user rows have the same
\* username, the same email or the same phone, and a registration answered while
\* a row repeats one of its three fields adds no row.
C19_UniqueUsers ==
  [][/\ \A u1, u2 \in users' :
          u1.id # u2.id => /\ u1.username # u2.username
                           /\ u1.email # u2.email
                           /\ u1.phone # u2.phone
     /\ (last'.op = "register" /\ tick' # tick /\ Colliding(users, last'.arg) # {})
          => users' = users /\ last'.status \in {400, 500}]_vars

\* a registration that passed its lookup, found at its insert that a request run
\* in between had taken one of its fields, and answered 500 with no row added
C19_Witness ==
  /\ last.op = "register"
  /\ last.status = 500
  /\ Colliding(users, last.arg) # {}
  /\ users # {}

\* the optional filters of the list handlers, in the order their handler tests
\* them (no handler has two of status, is_active and product_id)
FilterOrder ==
  <<"category", "location", "min_price", "max_price", "condition", "search",
    "exclude_my_products", "status", "is_active", "product_id">>

FilterRank(col) == CHOOSE i \in 1..Len(FilterOrder) : FilterOrder[i] = col

\* the optional filters the list request handled last carries
PresentFilters ==
  LET a == last.arg IN
  CASE last.op = "listProducts" ->
         {c \in {"category", "min_price", "max_price"} : a[c] # NULL}
         \cup {c \in {"location", "condition", "search"} : a[c] # ""}
         \cup {c \in {"exclude_my_products"} :
                 last.caller # NULL /\ a.exclude_my_products = "true"}
    [] last.op \in {"listMyPayments", "listSellerSales"} ->
         {c \in {"status"} : a.status # ""}
    [] last.op = "listUserProducts" -> {c \in {"is_active"} : a.is_active # ""}
    [] last.op = "listUserFavorites" -> {}
    [] last.op = "getConversation" -> {c \in {"product_id"} : a.product_id # NULL}

\* the page and the page size of the list request handled last
Paging ==
  IF last.op = "getConversation" THEN [page |-> 1, limit |-> MaxLimit]
  ELSE [page |-> last.arg.page, limit |-> last.arg.limit]

\* the positions of text at which the token sequence part starts
Starts(text, part) ==
  {i \in 1..(Len(text) + 1 - Len(part)) : SubSeq(text, i, i + Len(part) - 1) = part}

\* C21: in the row statement of every list request, each present optional
\* filter has one clause and one parameter, absent ones have none, clauses and
\* parameters follow the handler's fixed filter order, the clause of the k-th
\* parameter uses placeholder $k and no other clause does, the statement ends
\* with LIMIT $(n-1) OFFSET $n where n is the length of the parameter list and
\* the highest placeholder index, and the last two parameters are the limit
\* and (page - 1) * limit.
C21_Placeholders ==
  ListRequest =>
    LET text == Flat(Built.query)
        params == Built.params
        n == Len(params)
        filtered == {k \in 1..n : params[k] \in PresentFilters}
        at(k) == Starts(text, clause(params[k], Ph(k)))
    IN  /\ n = maxPlaceholder(text)
        /\ n >= 2
        /\ params[n - 1] = "limit"
        /\ params[n] = "offset"
        /\ SubSeq(text, Len(text) - 3, Len(text))
             = <<"LIMIT", Ph(n - 1), "OFFSET", Ph(n)>>
        /\ Built.values = <<Paging.limit, (Paging.page - 1) * Paging.limit>>
        /\ {params[k] : k \in filtered} = PresentFilters
        /\ Cardinality(filtered) = Cardinality(PresentFilters)
        /\ \A k \in 1..n : params[k] \in {"user", "other", "limit", "offset"} \cup PresentFilters
        /\ \A k \in filtered :
             /\ Cardinality(at(k)) = 1
             /\ \A i \in 1..Len(text) :
                  text[i] = Ph(k) =>
                    \E j \in at(k) : j <= i /\ i < j + Len(clause(params[k], Ph(k)))
        /\ \A j, k \in filtered :
             j < k => /\ FilterRank(params[j]) < FilterRank(params[k])
                      /\ \A x \in at(j), y \in at(k) : x < y

\* a products list with the seven filters present: nine parameters, the search
\* clause using $6 twice
C21_Witness ==
  /\ last.op = "listProducts"
  /\ Cardinality(PresentFilters) = 7
  /\ Len(Built.params) = 9
  /\ Built.params[6] = "search"
  /\ Cardinality({i \in 1..Len(Built.query) : Built.query[i] = Ph(6)}) = 2

\* a conversation narrowed to one listing: product_id is the third parameter
C21_WitnessConversation ==
  /\ last.op = "getConversation"
  /\ ListRequest
  /\ Built.params = <<"user", "other", "product_id", "limit", "offset">>

\* a second page: the offset bound is the page size
C21_WitnessOffset ==
  /\ ListRequest
  /\ Paging.page = 2
  /\ Built.values[2] = Paging.limit

\* the request handled in this step is on a listing of somebody else
ForeignProduct ==
  /\ last'.op \in {"updateProduct", "deleteProduct"}
  /\ \E p \in products : p.id = last'.arg.id /\ p.user_id # last'.caller

\* the request handled in this step deletes a message of two other users
ForeignMessage ==
  /\ last'.op = "deleteMessage"
  /\ \E m \in messages : /\ m.id = last'.arg.id
                         /\ m.sender_id # last'.caller
                         /\ m.receiver_id # last'.caller

C22_WitnessDelete ==
  /\ last.op = "deleteProduct"
  /\ last.status = 404
  /\ \E p \in products : /\ p.id = last.arg.id
                         /\ p.user_id # last.caller
                         /\ \E i \in product_images : i.product_id = p.id

\* a delete of a message by a user who neither sent nor received it
C22_WitnessMessage ==
  /\ last.op = "deleteMessage"
  /\ last.status = 404
  /\ \E m \in messages : /\ m.id = last.arg.id
                         /\ m.sender_id # last.caller
                         /\ m.receiver_id # last.caller

\* an update of somebody else's listing with eleven files, answered 500
C22_WitnessUpload ==
  /\ last.op = "updateProduct"
  /\ last.status = 500
  /\ last.arg.nfiles > UploadLimit
  /\ \E p \in products : p.id = last.arg.id /\ p.user_id # last.caller

\* the messages of rows sent to user u that are not read
Unread(rows, u) == {m \in rows : m.receiver_id = u /\ ~m.is_read}

\* C23: GET /messages/unread-count answers 200 with the number of unread
\* messages sent to the caller and changes no message; right after
\* PUT /messages/read/U the unread messages of the caller are the ones that
\* were unread before and were not sent by U, and the count endpoint would
\* report their number.
C23_UnreadCount ==
  [][/\ last'.op = "unreadCount" =>
          /\ last'.status = 200
          /\ messages' = messages
          /\ last'.out.unread_count = Cardinality(Unread(messages, last'.caller))
     /\ last'.op = "markRead" =>
          LET others == {m \in Unread(messages, last'.caller) :
                           m.sender_id # last'.arg.user_id}
          IN  /\ Unread(messages', last'.caller) = others
              /\ unreadCount(DB', last'.caller).out.unread_count = Cardinality(others)]_vars

\* messages of U to the caller were marked read while an unread message of
\* another sender stays counted
C23_Witness ==
  /\ last.op = "markRead"
  /\ \E m \in messages : /\ m.receiver_id = last.caller
                         /\ m.sender_id = last.arg.user_id
                         /\ m.is_read
  /\ \E m \in Unread(messages, last.caller) : m.sender_id # last.arg.user_id

\* a count that leaves out a message read before and counts an unread one
C23_WitnessCount ==
  /\ last.op = "unreadCount"
  /\ last.out.unread_count = 1
  /\ \E m \in messages : m.receiver_id = last.caller /\ m.is_read

\* the completed payments on product id
Completed(id) == {p \in payments : p.product_id = id /\ p.status = "completed"}

\* C24 as stated: however payment requests interleave, a product has at most
\* one completed payment.
C24_Original == \A p \in products : Cardinality(Completed(p.id)) <= 1

\* two buyers hold a completed payment on the one listing, the second of them
\* just answered 200
C24_Witness ==
  /\ last.op = "processPayment"
  /\ last.status = 200
  /\ \E p1, p2 \in Completed(last.arg.product_id) : p1.user_id # p2.user_id
  /\ \E p \in products : p.id = last.arg.product_id /\ ~p.is_active

\* C25: in every state between requests every payment row has status
\* 'completed', and a cancel request just handled was answered 404.
C25_AllCompleted ==
  /\ \A p \in payments : p.status = "completed"
  /\ last.op = "cancelPayment" => last.status = 404

\* the buyer of a payment asked to cancel it and got 404: the payment is
\* completed
C25_Witness ==
  /\ last.op = "cancelPayment"
  /\ last.status = 404
  /\ \E p \in payments : /\ p.id = last.arg.id
                         /\ p.user_id = last.caller
                         /\ p.status = "completed"

\* a payment whose transaction failed after its insert left no row behind
C25_WitnessFailed ==
  /\ last.op = "processPayment"
  /\ last.status = 500
  /\ last.out.threw > 2
  /\ ~\E p \in payments : p.id = last.out.id

\* the favorite rows of user u on product id
FavoriteRows(rows, u, id) == {f \in rows : f.user_id = u /\ f.product_id = id}

\* C26 as stated: however favorite toggles interleave, each (user, product)
\* pair has at most one favorite row; right after a toggle answered 200 the
\* caller's favorite on the product exists exactly when the answer says
\* is_favorite true; and of two toggles in flight together whose lookups both
\* saw no favorite, not both answer is_favorite true.
C26_Original ==
  [][/\ \A f1, f2 \in favorites' :
          (f1.user_id = f2.user_id /\ f1.product_id = f2.product_id) => f1 = f2
     /\ (last'.op = "toggleFavorite" /\ tick' # tick /\ last'.status = 200) =>
          /\ (FavoriteRows(favorites', last'.caller, last'.arg.id) # {})
               <=> (last'.out.is_favorite = "true")
          /\ last'.out.is_favorite = "true" => ~last'.arg.rival]_vars

\* C26: however favorite toggles interleave, each (user, product) pair has at
\* most one favorite row; right after a toggle answered 200 the caller's
\* favorite on the product exists exactly when the answer says is_favorite
\* true; and a toggle answers is_favorite true only when no favorite row for
\* the pair is there at the moment of its insert.
C26_Toggle ==
  [][/\ \A f1, f2 \in favorites' :
          (f1.user_id = f2.user_id /\ f1.product_id = f2.product_id) => f1 = f2
     /\ (last'.op = "toggleFavorite" /\ tick' # tick /\ last'.status = 200) =>
          /\ last'.out.is_favorite \in {"true", "false"}
          /\ (FavoriteRows(favorites', last'.caller, last'.arg.id) # {})
               <=> (last'.out.is_favorite = "true")
          /\ last'.out.is_favorite = "true" =>
               FavoriteRows(favorites, last'.caller, last'.arg.id) = {}]_vars

\* two toggles of one user on one product both saw no favorite: the first
\* inserted it, the second was answered 500 and the one row is in place
C26_Witness ==
  /\ last.op = "toggleFavorite"
  /\ last.status = 500
  /\ ~last.arg.found
  /\ Cardinality(FavoriteRows(favorites, last.caller, last.arg.id)) = 1

\* two toggles both saw the favorite: the second delete found nothing to
\* delete and answered is_favorite false
C26_WitnessDelete ==
  /\ last.op = "toggleFavorite"
  /\ last.status = 200
  /\ last.arg.found
  /\ last.out.is_favorite = "false"
  /\ seq.favorites = 2
  /\ inflight = {}
  /\ favorites = {}

\* both of two toggles in flight together that saw no favorite answered
\* is_favorite true: a third toggle had deleted the favorite in between
C26_WitnessRival ==
  /\ last.op = "toggleFavorite"
  /\ last.status = 200
  /\ last.out.is_favorite = "true"
  /\ last.arg.rival

\* C27 as stated: a category deletion answered 200 deleted a category that no
\* product referenced at the moment of the delete.
C27_Original ==
  [][(last'.op = "deleteCategory" /\ tick' # tick /\ last'.status = 200)
       => \A p \in products : p.category_id # last'.arg.id]_vars

\* a deletion answered 200 and a product is left without category: it was
\* given the category between the count and the delete
C27_Witness ==
  /\ last.op = "deleteCategory"
  /\ last.status = 200
  /\ ~\E c \in categories : c.id = last.arg.id
  /\ \E p \in products : p.category_id = NULL

\* C28: after a PUT /products/:id answered 200 the listing is active exactly
\* when the is_active field was the string 'true'; any other text and an
\* omitted field leave it inactive, whatever it was before and whether or not
\* it has been sold.
C28_IsActive ==
  (last.op = "updateProduct" /\ last.status = 200)
    => \A p \in products :
         p.id = last.arg.id => (p.is_active <=> last.arg.is_active = "true")

\* the owner put a sold listing back on sale
C28_Witness ==
  /\ last.op = "updateProduct"
  /\ last.status = 200
  /\ last.arg.is_active = "true"
  /\ \E p \in products :
       /\ p.id = last.arg.id
       /\ p.is_active
       /\ \E y \in payments : y.product_id = p.id /\ y.status = "completed"

\* an update without the field took an unsold listing off sale
C28_WitnessOmitted ==
  /\ last.op = "updateProduct"
  /\ last.status = 200
  /\ last.arg.is_active = ""
  /\ payments = {}
  /\ \E p \in products : p.id = last.arg.id /\ ~p.is_active

\* the primary image rows of a listing
PrimaryImages(productId) ==
  {i \in product_images : i.product_id = productId /\ i.is_primary}

\* C29 as stated: every listing that has an image row has exactly one primary
\* image row.
C29_Original ==
  \A p \in products :
    (\E i \in product_images : i.product_id = p.id)
      => Cardinality(PrimaryImages(p.id)) = 1

\* an update with files answered 200 and the listing has its previous primary
\* image and a new one
C29_Witness ==
  /\ last.op = "updateProduct"
  /\ last.status = 200
  /\ last.arg.nfiles >= 1
  /\ \E i, j \in PrimaryImages(last.arg.id) : i.id = 1 /\ j.id > 1

\* The messages from the counterpart to the caller that a conversation request
\* selects: those matching its filter that fall in its page, newest first
SelectedFrom(caller, otherUserId, q) ==
  LET matching == conversationWhere(DB, caller, otherUserId, q)
      newer(m) == Cardinality({n \in matching : n.id > m.id})
  IN  {m \in matching :
         /\ m.sender_id = otherUserId
         /\ m.receiver_id = caller
         /\ newer(m) >= offset(q.page, q.limit)
         /\ newer(m) < offset(q.page, q.limit) + q.limit}

\* C30 as stated: fetching the conversation with an existing counterpart marks
\* as read the messages selected by the request (filter and page) and no other.
C30_Original ==
  [][(/\ last'.op = "getConversation"
      /\ tick' # tick
      /\ \E u \in users : u.id = last'.arg.user_id)
       => LET q == [product_id |-> last'.arg.product_id, page |-> 1, limit |-> MaxLimit]
              selected == SelectedFrom(last'.caller, last'.arg.user_id, q)
          IN  messages' = {IF m \in selected THEN [m EXCEPT !.is_read = TRUE] ELSE m :
                             m \in messages}]_vars

\* a conversation was requested with a product filter while a message of the
\* counterpart about that product is unread, and the message is still unread
C30_Witness ==
  /\ last.op = "getConversation"
  /\ last.arg.product_id # NULL
  /\ last.status = 500
  /\ \E m \in messages :
       /\ m.sender_id = last.arg.user_id
       /\ m.receiver_id = last.caller
       /\ m.product_id = last.arg.product_id
       /\ ~m.is_read
====
